---- MODULE Spec2Model ----
(***************************************************************************)
(* Model of the command bot of discord/ext/commands/bot.py.                *)
(*                                                                         *)
(* Extension lifecycle (BotBase.load_extension, unload_extension,          *)
(* reload_extension and their helpers).  Every method is synchronous, so   *)
(* each call is one atomic action.  The methods are written as operators   *)
(* from a bot state to a result record [b, exc, cause, calls]; the actions *)
(* store the result in the variables.                                      *)
(*                                                                         *)
(* The user's extension modules (module body, setup, teardown) are inputs: *)
(* a small table of source versions says what each body declares and what  *)
(* each setup registers; where a user callable may raise, the point at     *)
(* which it raises is chosen by an oracle drawn with \E in the action.     *)
(***************************************************************************)
EXTENDS Naturals, Sequences, FiniteSets, TLC

VARIABLES
    extensions,   \* BotBase.__extensions : extension name -> module object
    sys_modules,  \* sys.modules          : module name -> module object
    cogs,         \* BotBase.__cogs       : cog name -> cog
    all_commands, \* GroupMixin.all_commands of the bot (top level)
    subcommands,  \* all_commands of the group objects: <<group, child>> pairs
    extra_events, \* BotBase.extra_events : event name -> list of listeners
    last,         \* the last call: its arguments, what it raised, what it called
    _checks,      \* BotBase._checks     : the global checks, in registration order
    _check_once,  \* BotBase._check_once : the call-once global checks, in order
    task,         \* the invoke or can_run call in progress, or the one that ended last
    events,       \* what that call has published, evaluated and run, in order
    command_prefix,      \* BotBase.command_prefix
    strip_after_prefix,  \* BotBase.strip_after_prefix
    message,      \* the message get_context is called with
    context,      \* the get_context call: the context it builds and where it is
    slash,        \* the process_slash_commands call: its interaction and its locals
    quoted,       \* the _quote_string_safe call: its string and what was made of it
    modal,        \* a ui.Modal: its children, its weights and the last call on it
    command_state,  \* a slash.CommandState: its dicts, its HTTP calls, the last call
    registration  \* the create_slash_commands call: the bot's commands, the HTTP calls

extVars == <<extensions, sys_modules, cogs, all_commands, subcommands, extra_events>>
invVars == <<_checks, _check_once, task, events>>
ctxVars == <<command_prefix, strip_after_prefix, message, context>>
slashVars == <<slash, quoted>>
appVars == <<modal, command_state, registration>>
vars == <<extensions, sys_modules, cogs, all_commands, subcommands, extra_events, last,
          _checks, _check_once, task, events,
          command_prefix, strip_after_prefix, message, context, slash, quoted,
          modal, command_state, registration>>

----------------------------------------------------------------------------
(* Bounds *)

\* Module executions whose objects are alive at once (the identities
\* 1..MaxId are reused once nothing refers to them).
MaxId == 4

----------------------------------------------------------------------------
(* Names.  A module name is the tuple of its characters, so that           *)
(* str.startswith can be computed.                                         *)

P    == <<"p">>             \* the extension "p"
PSub == <<"p", ".", "s">>   \* its submodule "p.s"
PQ   == <<"p", "q">>        \* another extension, "pq": no submodule of "p"
RelS == <<".", "s">>        \* the relative name ".s"
NoName == <<>>              \* package=None

ModNames  == {P, PSub, PQ}
CogNames  == {"C"}
TopNames  == {"b", "c", "g", "h"}
Events    == {"on_x"}

NoLib == [name |-> NoName, ver |-> "none", id |-> 0, sub |-> 0]
NoCmd == [name |-> "", module |-> NoName, gen |-> 0, group |-> FALSE]
NoCog == [name |-> "", module |-> NoName, gen |-> 0]

----------------------------------------------------------------------------
(* The extension sources, by the version of the file.  body: whether       *)
(* executing the module body raises; imports: whether the body imports the *)
(* submodule p.s; setup, teardown:                                         *)
(* whether the module defines them; kids: the subcommands the body attaches*)
(* to its groups (@group.command() at module level); script: what setup    *)
(* does, in order.                                                         *)

Step(kind, name, module, group, under) ==
    [kind |-> kind, name |-> name, module |-> module, group |-> group, under |-> under]

Src(v) ==
    CASE v = "v1" ->
           [body |-> "ok", imports |-> TRUE, setup |-> TRUE, teardown |-> TRUE,
            kids |-> {<<"g", "s">>},
            script |-> << Step("command", "g", P, TRUE, ""),
                          Step("listener", "la", P, FALSE, "on_x"),
                          Step("cog", "C", PSub, FALSE, "") >>]
      [] v = "v2" ->
           [body |-> "ok", imports |-> FALSE, setup |-> TRUE, teardown |-> FALSE,
            kids |-> {},
            script |-> << Step("command", "b", P, FALSE, ""),
                          Step("sub", "n", P, FALSE, "h") >>]
      [] v = "bad" ->
           [body |-> "raises", imports |-> FALSE, setup |-> TRUE, teardown |-> FALSE,
            kids |-> {}, script |-> << >>]
      [] v = "nosetup" ->
           [body |-> "ok", imports |-> FALSE, setup |-> FALSE, teardown |-> FALSE,
            kids |-> {}, script |-> << >>]
      [] v = "q1" ->
           [body |-> "ok", imports |-> FALSE, setup |-> TRUE, teardown |-> FALSE,
            kids |-> {},
            script |-> << Step("command", "h", PQ, TRUE, ""),
                          Step("listener", "lq", PQ, FALSE, "on_x") >>]
      [] v = "sub" ->      \* the plain submodule p.s
           [body |-> "ok", imports |-> FALSE, setup |-> FALSE, teardown |-> FALSE,
            kids |-> {}, script |-> << >>]
      [] OTHER ->          \* "none": no file; executing it raises
           [body |-> "raises", imports |-> FALSE, setup |-> FALSE, teardown |-> FALSE,
            kids |-> {}, script |-> << >>]

\* What may be in the file of extension p when a call is made; the files of
\* pq and p.s do not change.
PVersions == {"v1", "v2", "bad", "nosetup", "none"}
FileOf(name, file) == IF name = P THEN file ELSE IF name = PQ THEN "q1" ELSE "sub"

\* The commands and listeners a cog class declares.
CogCommands(name)  == IF name = "C" THEN {"c"} ELSE {}
CogListeners(name) == IF name = "C" THEN << [event |-> "on_x", name |-> "lc"] >> ELSE << >>

\* Where a user callable may raise: td, td2 the outcome of a teardown call,
\* k, k2 the number of steps a setup call completes before it raises (a k
\* above the script's length: it does not raise).  td and k are read by the
\* first teardown and setup call of an operation, td2 and k2 by the second.
MaxK == Len(Src("v1").script) + 1
Outcomes == {"ok", "raises"}
Oracle(td, k, td2, k2) == [td |-> td, k |-> k, td2 |-> td2, k2 |-> k2]

----------------------------------------------------------------------------
(* The bot state as one record, and object identity *)

Bot ==
    [ext |-> extensions, mods |-> sys_modules, cogs |-> cogs,
     cmds |-> all_commands, kids |-> subcommands, evs |-> extra_events]

\* The identities of the module objects something still refers to.
LiveIds(b) ==
    ( {b.ext[m].id : m \in ModNames} \cup {b.ext[m].sub : m \in ModNames}
      \cup {b.mods[m].id : m \in ModNames} \cup {b.mods[m].sub : m \in ModNames}
      \cup {b.cogs[c].gen : c \in CogNames} \cup {b.cmds[n].gen : n \in TopNames}
      \cup {p[1].gen : p \in b.kids} \cup {p[2].gen : p \in b.kids}
      \cup UNION {{b.evs[e][i].gen : i \in 1..Len(b.evs[e])} : e \in Events} ) \ {0}

\* A new object's identity: one that nothing alive has.
FreshId(used) ==
    CHOOSE i \in 1..(Cardinality(used) + 1) : i \notin used /\ \A j \in 1..(i - 1) : j \in used

\* The object `name` declared in `module` as the module object lib sees it:
\* lib's own declarations were made when lib's body ran, those of its
\* submodule when the submodule object it imported was made.
Obj(lib, name, module, group) ==
    [name |-> name, module |-> module,
     gen |-> IF module = lib.name THEN lib.id ELSE lib.sub, group |-> group]

\* Group objects that nothing refers to any more are gone, and their
\* all_commands with them.
Collect(b) ==
    LET libs == {b.ext[m].id : m \in ModNames} \cup {b.mods[m].id : m \in ModNames}
                \cup {b.ext[m].sub : m \in ModNames}
    IN  [b EXCEPT !.kids = {p \in @ : b.cmds[p[1].name] = p[1] \/ p[1].gen \in libs}]

\* Identities are arbitrary: the state is kept with the live ones numbered
\* in the order in which a fixed walk through the bot meets them.
Walk(b) ==
    << b.ext[P].id, b.ext[P].sub, b.ext[PQ].id, b.ext[PSub].id,
       b.mods[P].id, b.mods[P].sub, b.mods[PSub].id, b.mods[PQ].id,
       b.cogs["C"].gen, b.cmds["g"].gen, b.cmds["h"].gen, b.cmds["b"].gen,
       b.cmds["c"].gen >> \o [i \in 1..Len(b.evs["on_x"]) |-> b.evs["on_x"][i].gen]

Renumber(b) ==
    LET w == Walk(b)
        pos(i) == IF \E n \in 1..Len(w) : w[n] = i
                  THEN CHOOSE n \in 1..Len(w) : w[n] = i /\ \A m \in 1..(n - 1) : w[m] # i
                  ELSE Len(w) + i
        f(i) == IF i = 0 THEN 0
                ELSE Cardinality({j \in LiveIds(b) : pos(j) < pos(i)}) + 1
        lib(l) == [l EXCEPT !.id = f(@), !.sub = f(@)]
        obj(c) == [c EXCEPT !.gen = f(@)]
    IN  [ext |-> [m \in ModNames |-> lib(b.ext[m])],
         mods |-> [m \in ModNames |-> lib(b.mods[m])],
         cogs |-> [c \in CogNames |-> obj(b.cogs[c])],
         cmds |-> [n \in TopNames |-> obj(b.cmds[n])],
         kids |-> {<<obj(p[1]), obj(p[2])>> : p \in b.kids},
         evs |-> [e \in Events |-> [i \in 1..Len(b.evs[e]) |-> obj(b.evs[e][i])]]]

_is_submodule(parent, child) ==
    \/ parent = child
    \/ /\ Len(child) >= Len(parent) + 1
       /\ SubSeq(child, 1, Len(parent) + 1) = parent \o <<".">>

----------------------------------------------------------------------------
(* The command registry (GroupMixin) and the listeners *)

\* GroupMixin.add_command on the bot: a name already taken raises.
add_command(b, cmd) ==
    IF b.cmds[cmd.name] # NoCmd
    THEN [b |-> b, err |-> "CommandRegistrationError"]
    ELSE [b |-> [b EXCEPT !.cmds[cmd.name] = cmd], err |-> "none"]

\* bot.get_command(under).add_command(cmd): GroupMixin.add_command on a group.
add_subcommand(b, under, cmd) ==
    IF b.cmds[under] = NoCmd
    THEN [b |-> b, err |-> "AttributeError"]      \* get_command returned None
    ELSE IF \E p \in b.kids : p[1] = b.cmds[under] /\ p[2].name = cmd.name
    THEN [b |-> b, err |-> "CommandRegistrationError"]
    ELSE [b |-> [b EXCEPT !.kids = @ \cup {<<b.cmds[under], cmd>>}], err |-> "none"]

\* GroupMixin.remove_command on the bot: pops the name, if there.
remove_command(b, name) == [b EXCEPT !.cmds[name] = NoCmd]

\* GroupMixin.recursively_remove_all_commands on group g: every child is
\* removed from g, the children of a child group first.
RECURSIVE recursively_remove_all_commands(_, _)
RECURSIVE RemoveChildren(_, _, _)
RemoveChildren(kids, g, todo) ==
    IF todo = {} THEN kids
    ELSE LET c == CHOOSE x \in todo : TRUE
             k1 == IF c.group THEN recursively_remove_all_commands(kids, c) ELSE kids
         IN  RemoveChildren(k1 \ {<<g, c>>}, g, todo \ {c})

recursively_remove_all_commands(kids, g) ==
    RemoveChildren(kids, g, {p[2] : p \in {q \in kids : q[1] = g}})

add_listener(b, func, name) == [b EXCEPT !.evs[name] = Append(@, func)]

\* list.remove(func): the first equal element goes; ValueError is swallowed.
remove_listener(b, func, name) ==
    LET l == b.evs[name]
        hits == {i \in 1..Len(l) : l[i] = func}
    IN  IF hits = {} THEN b
        ELSE LET i == CHOOSE x \in hits : \A y \in hits : x <= y
             IN  [b EXCEPT !.evs[name] = SubSeq(l, 1, i - 1) \o SubSeq(l, i + 1, Len(l))]

----------------------------------------------------------------------------
(* Cogs *)

RECURSIVE InjectListeners(_, _, _)
InjectListeners(b, cog, i) ==
    LET ls == CogListeners(cog.name) IN
    IF i > Len(ls) THEN b
    ELSE InjectListeners(
             add_listener(b, [name |-> ls[i].name, module |-> cog.module,
                              gen |-> cog.gen, group |-> FALSE], ls[i].event),
             cog, i + 1)

RECURSIVE EjectListeners(_, _, _)
EjectListeners(b, cog, i) ==
    LET ls == CogListeners(cog.name) IN
    IF i > Len(ls) THEN b
    ELSE EjectListeners(
             remove_listener(b, [name |-> ls[i].name, module |-> cog.module,
                                 gen |-> cog.gen, group |-> FALSE], ls[i].event),
             cog, i + 1)

\* Cog._inject: the cog's commands are added to the bot (a name already
\* taken raises and nothing of the cog stays), then its listeners.
CogInject(b, cog) ==
    IF \E n \in CogCommands(cog.name) : b.cmds[n] # NoCmd
    THEN [b |-> b, err |-> "CommandRegistrationError"]
    ELSE [b |-> InjectListeners(
                    [b EXCEPT !.cmds = [n \in TopNames |->
                        IF n \in CogCommands(cog.name)
                        THEN [name |-> n, module |-> cog.module, gen |-> cog.gen,
                              group |-> FALSE]
                        ELSE @[n]]],
                    cog, 1),
          err |-> "none"]

\* Cog._eject: the cog's top-level commands are removed from the bot by
\* name, and its listeners.
CogEject(b, cog) ==
    EjectListeners(
        [b EXCEPT !.cmds = [n \in TopNames |->
            IF n \in CogCommands(cog.name) THEN NoCmd ELSE @[n]]],
        cog, 1)

\* r: what cog._inject(self) did; then self.__cogs[cog_name] = cog
AddCogInjected(cog, r) ==
    IF r.err # "none" THEN r
    ELSE [b |-> [r.b EXCEPT !.cogs[cog.name] = cog], err |-> "none"]

add_cog(b, cog) ==
    IF b.cogs[cog.name] # NoCog
    THEN [b |-> b, err |-> "ClientException"]           \* override=False
    ELSE AddCogInjected(cog, CogInject(b, cog))

remove_cog(b, name) ==
    LET cog == b.cogs[name] IN
    IF cog = NoCog THEN b
    ELSE CogEject([b EXCEPT !.cogs[name] = NoCog], cog)

----------------------------------------------------------------------------
(* The user's code: module body, setup and teardown *)

\* A call of user code: of which function, of which module object (the
\* version of its file and its identity), and what it raised.
Call(fn, lib, raised) == [fn |-> fn, ver |-> lib.ver, id |-> lib.id, raised |-> raised]

\* One statement of a setup function.  For a listener, `under` is the event.
ApplyStep(b, lib, st) ==
    CASE st.kind = "command" -> add_command(b, Obj(lib, st.name, st.module, st.group))
      [] st.kind = "sub" -> add_subcommand(b, st.under, Obj(lib, st.name, st.module, st.group))
      [] st.kind = "listener" ->
           [b |-> add_listener(b, Obj(lib, st.name, st.module, FALSE), st.under),
            err |-> "none"]
      [] OTHER ->
           add_cog(b, [name |-> st.name, module |-> st.module,
                       gen |-> Obj(lib, st.name, st.module, FALSE).gen])

RECURSIVE RunScript(_, _, _, _)
\* r: what statement i did; a statement that raises ends the function.
RunNext(lib, i, k, r) ==
    IF r.err # "none" THEN r ELSE RunScript(r.b, lib, i + 1, k)

RunScript(b, lib, i, k) ==
    IF i - 1 = k THEN [b |-> b, err |-> "SetupError"]
    ELSE IF i > Len(Src(lib.ver).script) THEN [b |-> b, err |-> "none"]
    ELSE RunNext(lib, i, k, ApplyStep(b, lib, Src(lib.ver).script[i]))

\* lib.setup(bot): the statements in order; it raises after k of them, or
\* where a registration raises.
setup(b, lib, k) == RunScript(b, lib, 1, k)

\* spec.loader.exec_module(lib): runs the module body of the file on disk.
\* The body imports the submodule (made new unless sys.modules has it),
\* declares its commands, attaches the subcommands of its groups, and may
\* then raise.
exec_module(b, lib) ==
    LET src == Src(lib.ver)
        sub == IF b.mods[PSub] # NoLib THEN b.mods[PSub]
               ELSE [name |-> PSub, ver |-> "sub", id |-> lib.id, sub |-> 0]
        lib1 == IF src.imports THEN [lib EXCEPT !.sub = sub.id] ELSE lib
        b1 == IF src.imports
              THEN [b EXCEPT !.mods = [@ EXCEPT ![PSub] = sub, ![lib.name] = lib1]]
              ELSE b
        b2 == [b1 EXCEPT !.kids = @ \cup
                  {<<Obj(lib1, p[1], lib1.name, TRUE), Obj(lib1, p[2], lib1.name, FALSE)>> :
                       p \in src.kids}]
    IN  IF src.body = "raises"
        THEN [b |-> b1, lib |-> lib1, err |-> "BodyError"]
        ELSE [b |-> b2, lib |-> lib1, err |-> "none"]

----------------------------------------------------------------------------
(* BotBase: the extension helpers *)

RECURSIVE RemoveCogs(_, _, _, _)
RemoveCogs(b, name, copy, todo) ==
    IF todo = {} THEN b
    ELSE LET c == CHOOSE x \in todo : TRUE IN
         RemoveCogs(IF copy[c] # NoCog /\ _is_submodule(name, copy[c].module)
                    THEN remove_cog(b, c) ELSE b,
                    name, copy, todo \ {c})

RECURSIVE RemoveCommands(_, _, _, _)
RemoveCommands(b, name, copy, todo) ==
    IF todo = {} THEN b
    ELSE LET n == CHOOSE x \in todo : TRUE
             cmd == copy[n]
         IN  RemoveCommands(
                 IF cmd # NoCmd /\ _is_submodule(name, cmd.module)
                 THEN remove_command(
                          IF cmd.group
                          THEN [b EXCEPT !.kids = recursively_remove_all_commands(@, cmd)]
                          ELSE b,
                          cmd.name)
                 ELSE b,
                 name, copy, todo \ {n})

RemoveListeners(b, name) ==
    LET keep(event) == ~ _is_submodule(name, event.module)
    IN  [b EXCEPT !.evs = [e \in Events |-> SelectSeq(@[e], keep)]]

_remove_module_references(b, name) ==
    LET b1 == RemoveCogs(b, name, b.cogs, CogNames)
        b2 == RemoveCommands(b1, name, b1.cmds, TopNames)
    IN  RemoveListeners(b2, name)

\* A faulty variant of _call_module_finalizers, for comparison: it pops the
\* extension's own entries and leaves the submodules in sys.modules.
FinalizersKeepSubmodules(b, lib, key, td) ==
    [b |-> [b EXCEPT !.ext[key] = NoLib, !.mods[key] = NoLib],
     calls |-> IF Src(lib.ver).teardown
               THEN << Call("teardown", lib, IF td = "raises" THEN "TeardownError" ELSE "none") >>
               ELSE << >>]

\* td: what the teardown call does, when the module has a teardown.
_call_module_finalizers(b, lib, key, td) ==
    [b |-> [b EXCEPT !.ext[key] = NoLib,
                     !.mods = [m \in ModNames |->
                                  IF m = key \/ _is_submodule(lib.name, m)
                                  THEN NoLib ELSE @[m]]],
     calls |-> IF Src(lib.ver).teardown
               THEN << Call("teardown", lib, IF td = "raises" THEN "TeardownError" ELSE "none") >>
               ELSE << >>]

Result(b, exc, cause, calls) == [b |-> b, exc |-> exc, cause |-> cause, calls |-> calls]

\* importlib.util.module_from_spec: a new module object for the file the
\* spec locates.  held: the identities the caller still refers to.
module_from_spec(b, spec, key, held) ==
    [name |-> key, ver |-> spec, id |-> FreshId(held \cup LiveIds(b)), sub |-> 0]

\* setup raised (s): the module's references have been removed and its
\* finalizers called (f).
LoadCleanedUp(lib, s, f) ==
    Result(f.b, "ExtensionFailed", s.err,
           << Call("exec", lib, "none"), Call("setup", lib, s.err) >> \o f.calls)

\* s: what setup(self) did.
LoadSetUp(key, td, lib, s) ==
    IF s.err # "none"
    THEN LoadCleanedUp(lib, s,
             _call_module_finalizers(
                 _remove_module_references([s.b EXCEPT !.mods[key] = NoLib], lib.name),
                 lib, key, td))
    ELSE Result([s.b EXCEPT !.ext[key] = lib], "none", "none",
                << Call("exec", lib, "none"), Call("setup", lib, "none") >>)

\* A faulty variant of LoadExecuted, for comparison: a module without an
\* entry point stays in sys.modules.
LoadExecutedKeepsModule(key, k, td, x) ==
    IF x.err # "none"
    THEN Result([x.b EXCEPT !.mods[key] = NoLib], "ExtensionFailed", x.err,
                << Call("exec", x.lib, x.err) >>)
    ELSE IF ~ Src(x.lib.ver).setup
    THEN Result(x.b, "NoEntryPointError", "none", << Call("exec", x.lib, "none") >>)
    ELSE LoadSetUp(key, td, x.lib, setup(x.b, x.lib, k))

\* x: what spec.loader.exec_module(lib) did.
LoadExecuted(key, k, td, x) ==
    IF x.err # "none"
    THEN Result([x.b EXCEPT !.mods[key] = NoLib], "ExtensionFailed", x.err,
                << Call("exec", x.lib, x.err) >>)
    ELSE IF ~ Src(x.lib.ver).setup
    THEN Result([x.b EXCEPT !.mods[key] = NoLib], "NoEntryPointError", "none",
                << Call("exec", x.lib, "none") >>)
    ELSE LoadSetUp(key, td, x.lib, setup(x.b, x.lib, k))

\* lib: the new module object; sys.modules[key] = lib, then the body runs.
LoadModule(b, key, k, td, lib) ==
    LoadExecuted(key, k, td, exec_module([b EXCEPT !.mods[key] = lib], lib))

_load_from_module_spec(b, spec, key, k, td, held) ==
    LoadModule(b, key, k, td, module_from_spec(b, spec, key, held))

\* importlib.util.resolve_name: an absolute name is itself, a relative one
\* needs the package.
_resolve_name(name, package) ==
    IF Head(name) # "." THEN [name |-> name, err |-> "none"]
    ELSE IF package = NoName THEN [name |-> name, err |-> "ExtensionNotFound"]
    ELSE [name |-> package \o name, err |-> "none"]

\* importlib.util.find_spec: there is a spec when the module is in
\* sys.modules or its file is on disk.
find_spec(b, name, file) == b.mods[name] # NoLib \/ FileOf(name, file) # "none"

\* A faulty variant of LoadResolved, for comparison: it loads the module
\* again without asking whether the name is in the table.
LoadResolvedAgain(b, rn, file, k, td, held) ==
    IF rn.err # "none" THEN Result(b, "ExtensionNotFound", "none", << >>)
    ELSE IF ~ find_spec(b, rn.name, file) THEN Result(b, "ExtensionNotFound", "none", << >>)
    ELSE _load_from_module_spec(b, FileOf(rn.name, file), rn.name, k, td, held)

\* rn: what _resolve_name gave.
LoadResolved(b, rn, file, k, td, held) ==
    IF rn.err # "none" THEN Result(b, "ExtensionNotFound", "none", << >>)
    ELSE IF b.ext[rn.name] # NoLib THEN Result(b, "ExtensionAlreadyLoaded", "none", << >>)
    ELSE IF ~ find_spec(b, rn.name, file) THEN Result(b, "ExtensionNotFound", "none", << >>)
    ELSE _load_from_module_spec(b, FileOf(rn.name, file), rn.name, k, td, held)

load_extension(b, name, package, file, k, td, held) ==
    LoadResolved(b, _resolve_name(name, package), file, k, td, held)

\* f: what _call_module_finalizers did.
Unloaded(f) == Result(f.b, "none", "none", f.calls)

UnloadResolved(b, rn, td) ==
    IF rn.err # "none" THEN Result(b, "ExtensionNotFound", "none", << >>)
    ELSE IF b.ext[rn.name] = NoLib THEN Result(b, "ExtensionNotLoaded", "none", << >>)
    ELSE Unloaded(_call_module_finalizers(
                      _remove_module_references(b, b.ext[rn.name].name),
                      b.ext[rn.name], rn.name, td))

unload_extension(b, name, package, td) ==
    UnloadResolved(b, _resolve_name(name, package), td)

\* The rollback of a reload.  s: what lib.setup(self) did on the old module
\* object; modules: the sys.modules entries saved before the unload.
ReloadRolledBack(name, lib, modules, f, l, s) ==
    IF s.err # "none"
    THEN Result(s.b, s.err, l.exc,
                f.calls \o l.calls \o << Call("setup", lib, s.err) >>)
    ELSE Result([s.b EXCEPT !.ext[name] = lib,
                            !.mods = [m \in ModNames |->
                                         IF modules[m] # NoLib THEN modules[m] ELSE @[m]]],
                l.exc, l.cause,
                f.calls \o l.calls \o << Call("setup", lib, "none") >>)

\* l: what self.load_extension(name) did.
ReloadLoaded(name, lib, modules, o, f, l) ==
    IF l.exc = "none" THEN Result(l.b, "none", "none", f.calls \o l.calls)
    ELSE ReloadRolledBack(name, lib, modules, f, l, setup(l.b, lib, o.k2))

\* f: what _call_module_finalizers did on the old module object.
ReloadUnloaded(name, lib, modules, file, o, held, f) ==
    ReloadLoaded(name, lib, modules, o, f,
                 load_extension(f.b, name, NoName, file, o.k, o.td2, held))

\* A faulty variant of ReloadResolved, for comparison: a name that is not
\* in the table is loaded.
ReloadResolvedLoads(b, rn, file, o, held) ==
    IF rn.err # "none" THEN Result(b, "ExtensionNotFound", "none", << >>)
    ELSE IF b.ext[rn.name] = NoLib THEN LoadResolved(b, rn, file, o.k, o.td, held)
    ELSE ReloadUnloaded(
             rn.name, b.ext[rn.name],
             [m \in ModNames |->
                 IF _is_submodule(b.ext[rn.name].name, m) THEN b.mods[m] ELSE NoLib],
             file, o, held,
             _call_module_finalizers(
                 _remove_module_references(b, b.ext[rn.name].name),
                 b.ext[rn.name], rn.name, o.td))

\* A faulty variant of ReloadResolved, for comparison: the old module's
\* cogs, commands and listeners are not removed before the new load.
ReloadResolvedKeepsReferences(b, rn, file, o, held) ==
    IF rn.err # "none" THEN Result(b, "ExtensionNotFound", "none", << >>)
    ELSE IF b.ext[rn.name] = NoLib THEN Result(b, "ExtensionNotLoaded", "none", << >>)
    ELSE ReloadUnloaded(
             rn.name, b.ext[rn.name],
             [m \in ModNames |->
                 IF _is_submodule(b.ext[rn.name].name, m) THEN b.mods[m] ELSE NoLib],
             file, o, held,
             _call_module_finalizers(b, b.ext[rn.name], rn.name, o.td))

ReloadResolved(b, rn, file, o, held) ==
    IF rn.err # "none" THEN Result(b, "ExtensionNotFound", "none", << >>)
    ELSE IF b.ext[rn.name] = NoLib THEN Result(b, "ExtensionNotLoaded", "none", << >>)
    ELSE ReloadUnloaded(
             rn.name, b.ext[rn.name],
             [m \in ModNames |->
                 IF _is_submodule(b.ext[rn.name].name, m) THEN b.mods[m] ELSE NoLib],
             file, o, held,
             _call_module_finalizers(
                 _remove_module_references(b, b.ext[rn.name].name),
                 b.ext[rn.name], rn.name, o.td))

reload_extension(b, name, package, file, o, held) ==
    ReloadResolved(b, _resolve_name(name, package), file, o, held)

----------------------------------------------------------------------------
(* close *)

\* The orders in which a loop can meet the keys S of a dict.
Orders(S) ==
    {o \in [1..Cardinality(S) -> S] : \A i, j \in 1..Cardinality(S) : i # j => o[i] # o[j]}

\* A call close makes: of which method, and what it raised.
Made(fn, raised) == [fn |-> fn, raised |-> raised]

\* A faulty variant of CloseExtensions, for comparison: the loop ends after
\* the first extension.
CloseExtensionsStopsAtFirst(b, order, i, td, calls) ==
    IF order = << >> THEN [b |-> b, calls |-> calls]
    ELSE [b |-> unload_extension(b, order[1], NoName, td[order[1]]).b,
          calls |-> << Made("unload_extension",
                            unload_extension(b, order[1], NoName, td[order[1]]).exc) >>
                    \o unload_extension(b, order[1], NoName, td[order[1]]).calls]

\* The first loop of close, from the i-th extension of the tuple on:
\* unload_extension(extension), and whatever it raises is passed over.
\* td: what the teardown of each extension does.  r: what the unload did.
RECURSIVE CloseExtensions(_, _, _, _, _)
CloseUnloaded(order, i, td, calls, r) ==
    CloseExtensions(r.b, order, i + 1, td,
                    calls \o << Made("unload_extension", r.exc) >> \o r.calls)

CloseExtensions(b, order, i, td, calls) ==
    IF i > Len(order) THEN [b |-> b, calls |-> calls]
    ELSE CloseUnloaded(order, i, td, calls,
                       unload_extension(b, order[i], NoName, td[order[i]]))

\* The second loop of close, over the names of the cogs there were when it
\* began: remove_cog(cog).
RECURSIVE CloseCogs(_, _, _)
CloseCogs(b, todo, calls) ==
    IF todo = {} THEN [b |-> b, calls |-> calls]
    ELSE LET name == CHOOSE x \in todo : TRUE
         IN  CloseCogs(remove_cog(b, name), todo \ {name},
                       Append(calls, Made("remove_cog", "none")))

\* close, where the extensions have been unloaded (e): the cogs are
\* removed, and super().close() is awaited.
CloseUnloadedAll(e) ==
    CloseCogs(e.b, {x \in CogNames : e.b.cogs[x] # NoCog}, e.calls)

\* close(), the extensions being met in `order`.
close(b, order, td) == CloseUnloadedAll(CloseExtensions(b, order, 1, td, << >>))

----------------------------------------------------------------------------
(* Invocation: the global checks, can_run and invoke *)

\* Global checks registered at once, in the two lists together.
MaxChecks == 2

\* Python's None where a string is expected; strings are tuples of
\* characters, and no character is "None".
None == <<"None">>

\* The check functions of the user: what a call of each returns or raises.
CheckNames == {"yes", "one", "no", "nil", "deny", "bug"}
CheckSrc(f) ==
    CASE f = "yes"  -> [returns |-> "True",  raises |-> "none"]
      [] f = "one"  -> [returns |-> "1",     raises |-> "none"]
      [] f = "no"   -> [returns |-> "False", raises |-> "none"]
      [] f = "nil"  -> [returns |-> "None",  raises |-> "none"]
      [] f = "deny" -> [returns |-> "None",  raises |-> "CheckFailure"]
      [] OTHER      -> [returns |-> "None",  raises |-> "Exception"]

\* bool(v) of the values the checks return.
Truthy(v) == v \notin {"False", "None", "0", ""}

\* The exceptions that derive from errors.CommandError.
CommandErrors ==
    {"CommandError", "CheckFailure", "CommandNotFound", "CommandInvokeError",
     "MissingRequiredArgument", "MissingRequiredFlag", "UnexpectedQuoteError"}

\* What awaiting ctx.command.invoke(ctx) does: it returns, or raises a
\* command error, or raises something else.
RunOutcomes == {"ok", "CommandInvokeError", "MissingRequiredArgument", "Exception"}

\* What awaiting ctx.command.dispatch_error(ctx, exc) does: the handlers
\* return, or one of them raises.
HandlerOutcomes == {"ok", "Exception"}

\* A context as invoke reads it: the resolved command and the invocation
\* token.
Ctx(command, invoked_with) == [command |-> command, invoked_with |-> invoked_with]
NoCtx == Ctx(NoCmd, None)
Ping == [name |-> "g", module |-> P, gen |-> 1, group |-> FALSE]
Contexts ==
    {Ctx(Ping, <<"g">>), Ctx(NoCmd, <<"x">>), Ctx(NoCmd, <<>>), Ctx(NoCmd, None)}

\* No call in progress.  fn: the method called, "invoke" or "can_run"; pc:
\* where the call is; i: the check can_run is at (from 1); exc: the command
\* error invoke has caught; result, raised: how the call ended.
NoTask ==
    [pc |-> "idle", fn |-> "", ctx |-> NoCtx, call_once |-> FALSE, i |-> 0,
     exc |-> "none", result |-> "None", raised |-> "none"]

\* An entry of the log of a call.  kind "dispatch": event `name` was
\* published, carrying value; "check": check function `name` was called and
\* returned value or raised; "invoke": ctx.command.invoke(ctx) of command
\* `name` was awaited and returned or raised; "dispatch_error":
\* ctx.command.dispatch_error(ctx, value) was awaited.
Event(kind, name, value, raised) ==
    [kind |-> kind, name |-> name, value |-> value, raised |-> raised]

\* self.dispatch(event_name, ...): the event is published.
dispatch(log, event_name, arg) == Append(log, Event("dispatch", event_name, arg, "none"))

----------------------------------------------------------------------------
(* Messages, prefixes and the argument view *)

\* The longest content of a message.
MaxLen == 4

\* The characters of the contents; " " is the whitespace.
Chars == {"!", "?", " ", "g"}
Contents == UNION {[1..n -> Chars] : n \in 0..MaxLen}
isspace(ch) == ch = " "

\* A prefix value: a string, or a list of strings (items: the one string, or
\* the elements), or nothing.
Str(string) == [type |-> "str", items |-> << string >>]
List(items) == [type |-> "list", items |-> items]
NoValue == [type |-> "NoneType", items |-> << >>]

\* Other values a prefix may be given as: a tuple of elements, an integer,
\* and a function (items: the string it would return if it were called).
\* An element None of a list is an element that is not a string.
Tuple(items) == [type |-> "tuple", items |-> items]
Int == [type |-> "int", items |-> << >>]
Function(string) == [type |-> "function", items |-> << string >>]
Iterables == {"list", "tuple"}

\* command_prefix: a value, or a function that returns the value.
Plain(value) == [callable |-> FALSE, value |-> value]
Callable(value) == [callable |-> TRUE, value |-> value]
Prefixes ==
    {Plain(Str(<<"!">>)), Plain(Str(<<"!", "?">>)),
     Plain(List(<< <<"!", "?">>, <<"!">> >>)), Plain(List(<< <<"!">>, <<"!", "?">> >>)),
     Plain(List(<< >>)),
     Callable(Str(<<"!">>)), Callable(List(<< <<"!", "?">>, <<"!">> >>)),
     Callable(List(<< >>)),
     Plain(Tuple(<< <<"!">>, <<"!", "?">>, <<"!", "?">> >>)),
     Plain(List(<< << >>, <<"!">> >>)), Plain(List(<< <<"?">>, << >>, <<"!">> >>)),
     Plain(List(<< <<"!">>, None >>)), Callable(List(<< None, <<"!">> >>)),
     Plain(Int), Callable(Int), Callable(Function(<<"!">>))}

\* self.user, the users that are bots, and the messages: those received,
\* by the bot itself or by another user, and those made from an
\* interaction of a user, whose
\* content is "/", the name of a command and the arguments, each after a
\* space.
user == [id |-> "1"]
BotIds == {"1", "3"}
Message(author_id, content, fake) ==
    [author |-> [id |-> author_id, bot |-> author_id \in BotIds],
     content |-> content, fake |-> fake]
NoMessage == Message("", << >>, FALSE)
Messages ==
    {Message(a, c, FALSE) : a \in {"1", "2"}, c \in Contents}
        \cup {Message("2", <<"/", "g">>, TRUE)}
        \cup {Message("2", <<"/", "g", " ">> \o c, TRUE) :
                  c \in {d \in Contents : Len(d) + 3 <= MaxLen}}

\* The messages on_message is given.
ProcessMessages ==
    {Message(a, c, FALSE) : a \in {"1", "2", "3"},
                            c \in {<<"!", "g">>, <<"!", "x">>, <<"!">>, <<"g">>}}

\* StringView(buffer), and buffer[a:b].
StringView(buffer) == [buffer |-> buffer, index |-> 0, previous |-> 0]
Slice(string, a, b) == SubSeq(string, a + 1, IF b < Len(string) THEN b ELSE Len(string))

\* StringView.skip_string: the string is skipped if the buffer has it at the
\* cursor.
skip_string(view, string) ==
    IF Slice(view.buffer, view.index, view.index + Len(string)) = string
    THEN [ok |-> TRUE,
          view |-> [view EXCEPT !.previous = view.index, !.index = view.index + Len(string)]]
    ELSE [ok |-> FALSE, view |-> view]

\* The loop of skip_ws (space TRUE) and of get_word (space FALSE): pos
\* grows while the character at index + pos is (is not) whitespace.
RECURSIVE Scan(_, _, _)
Scan(view, pos, space) ==
    IF view.index + pos >= Len(view.buffer) THEN pos
    ELSE IF isspace(view.buffer[view.index + pos + 1]) # space THEN pos
    ELSE Scan(view, pos + 1, space)

\* StringView.skip_ws and StringView.get_word.
skip_ws(view) ==
    [view EXCEPT !.previous = view.index, !.index = view.index + Scan(view, 0, TRUE)]
get_word(view) ==
    [word |-> Slice(view.buffer, view.index, view.index + Scan(view, 0, FALSE)),
     view |-> [view EXCEPT !.previous = view.index,
                           !.index = view.index + Scan(view, 0, FALSE)]]

\* message.content.startswith(tuple(prefix)) from element i on: the
\* elements are tried in order, True at the first that the content begins
\* with; an element that is not a string raises when it is reached.
RECURSIVE startswith(_, _, _)
startswith(content, prefix, i) ==
    IF i > Len(prefix) THEN [value |-> FALSE, exc |-> "none"]
    ELSE IF prefix[i] = None THEN [value |-> FALSE, exc |-> "TypeError"]
    ELSE IF Slice(content, 0, Len(prefix[i])) = prefix[i]
    THEN [value |-> TRUE, exc |-> "none"]
    ELSE startswith(content, prefix, i + 1)

\* discord.utils.find(view.skip_string, prefix) from element i on: the
\* first element that skip_string skips, or None; skip_string raises for
\* an element that is not a string (it has no len()).
RECURSIVE find(_, _, _)
find(view, prefix, i) ==
    IF i > Len(prefix) THEN [value |-> None, view |-> view, exc |-> "none"]
    ELSE IF prefix[i] = None THEN [value |-> None, view |-> view, exc |-> "TypeError"]
    ELSE IF skip_string(view, prefix[i]).ok
    THEN [value |-> prefix[i], view |-> skip_string(view, prefix[i]).view, exc |-> "none"]
    ELSE find(view, prefix, i + 1)

\* self.all_commands.get(invoker): the names of the commands have one
\* character.
Get(commands, invoker) ==
    IF Len(invoker) = 1 /\ invoker[1] \in TopNames THEN commands[invoker[1]] ELSE NoCmd

\* No interaction, and no call of process_slash_commands.  pc: where the
\* call is; command_name, command_options: what _unwrap_slash_groups
\* returned; the other fields are the locals of the loop.
NoInteraction ==
    [type |-> "none", data |-> [name |-> << >>, options |-> << >>], channel |-> "none"]
NoSlash ==
    [pc |-> "idle", interaction |-> NoInteraction, command_name |-> << >>,
     command_options |-> << >>, exc |-> "none", arg |-> "", content |-> << >>,
     added |-> << >>, ignore_params |-> << >>]

\* No call of _quote_string_safe.  value: the string returned; rest: what
\* follows it in the content; word, index: the word a view reads of the
\* content, and where its cursor is after it.
NoQuoted ==
    [pc |-> "idle", string |-> << >>, value |-> << >>, exc |-> "none",
     rest |-> << >>, word |-> << >>, index |-> 0]

\* No call of get_context.  pc: where the call is; prefix, invoked_with,
\* command: the fields of the context; view: its view; resolved: what
\* get_prefix returned; called: the calls of a command_prefix function;
\* looked_up: the names looked up in all_commands; exc: what the call raised.
NoContext ==
    [pc |-> "idle", prefix |-> None, invoked_with |-> None, command |-> NoCmd,
     view |-> StringView(<< >>), resolved |-> NoValue, called |-> 0,
     looked_up |-> << >>, exc |-> "none", _ignored_params |-> << >>,
     interaction |-> NoInteraction]

----------------------------------------------------------------------------
(* Lists *)

\* l.remove(func): the first func of the list is taken out; ValueError
\* without one.
Remove(l, func) ==
    IF \A k \in DOMAIN l : l[k] # func THEN [l |-> l, exc |-> "ValueError"]
    ELSE [l |-> SubSeq(l, 1, (CHOOSE k \in DOMAIN l :
                                  l[k] = func /\ \A j \in 1..(k - 1) : l[j] # func) - 1)
                    \o SubSeq(l, (CHOOSE k \in DOMAIN l :
                                      l[k] = func /\ \A j \in 1..(k - 1) : l[j] # func) + 1,
                              Len(l)),
          exc |-> "none"]

----------------------------------------------------------------------------
(* ui.Modal *)

\* The items given to a modal: item 1 is an InputText, whose width is 5,
\* the others are items of width 1; 0 is an object that is no Item.
MaxItems == 6
Items == 1..MaxItems
width(item) == IF item = 1 THEN 5 ELSE 1

\* A modal as constructed.  weights: the width taken in each of the five
\* rows; rendered: the row each item is in (0: none); op, item, exc, was:
\* the last call, what it raised and the children before it.
NoModal ==
    [children |-> << >>, weights |-> <<0, 0, 0, 0, 0>>, rendered |-> [i \in Items |-> 0],
     op |-> "init", item |-> 0, exc |-> "none", was |-> << >>]

\* _ViewWeights.find_open_space: the first row with room for the item, 0
\* where it raises ValueError.
find_open_space(weights, item) ==
    IF \E index \in 1..5 : weights[index] + width(item) <= 5
    THEN CHOOSE index \in 1..5 : /\ weights[index] + width(item) <= 5
                                 /\ \A j \in 1..(index - 1) : weights[j] + width(item) > 5
    ELSE 0

\* Modal.add_item(item), the row of the item being None.
add_item(m, item) ==
    IF item \notin Items THEN [m EXCEPT !.exc = "TypeError"]
    ELSE IF Len(m.children) > 5 THEN [m EXCEPT !.exc = "ValueError"]
    ELSE IF find_open_space(m.weights, item) = 0 THEN [m EXCEPT !.exc = "ValueError"]
    ELSE [m EXCEPT !.exc = "none",
                   !.weights[find_open_space(m.weights, item)] = @ + width(item),
                   !.rendered[item] = find_open_space(m.weights, item),
                   !.children = Append(@, item)]

\* Modal.remove_item(item): the first occurrence is removed and the weight
\* of its row released; an item that is not a child changes nothing.
remove_item(m, item) ==
    IF \A i \in 1..Len(m.children) : m.children[i] # item THEN [m EXCEPT !.exc = "none"]
    ELSE [m EXCEPT !.exc = "none",
                   !.children = Remove(@, item).l,
                   !.weights = IF m.rendered[item] = 0 THEN @
                               ELSE [@ EXCEPT ![m.rendered[item]] = @ - width(item)],
                   !.rendered[item] = 0]

----------------------------------------------------------------------------
(* Nothing of the modal, the command state and the registration in use *)

\* A guild list, Python's None in its place, and the _guilds_ attribute
\* that a class does not have.
GuildList(ids) == [kind |-> "list", ids |-> ids]
NoGuildList == [kind |-> "None", ids |-> << >>]
Missing == [kind |-> "MISSING", ids |-> << >>]

\* The guild ids, and the keys of pre_registration: 0 stands for None.
GuildIds == {1, 2}
Keys == {0} \cup GuildIds

\* The application command classes of the program, by name, with the
\* guilds keyword of the class statement; NoClass: no class.
CommandClass(name, guilds) == [name |-> name, guilds |-> guilds]
NoClass == CommandClass("", Missing)
CommandClasses ==
    {CommandClass("A", Missing), CommandClass("B", NoGuildList),
     CommandClass("C", GuildList(<<1>>)), CommandClass("D", GuildList(<<2, 1>>))}

\* The id the server gives a command uploaded under a key; the command ids
\* of the interactions, one of which the server gave to no command of the
\* program.
ServerId(cls, key) ==
    10 * key + (CASE cls.name = "A" -> 1 [] cls.name = "B" -> 2 [] cls.name = "C" -> 3
                  [] OTHER -> 4)
ServerIds == {ServerId(cls, key) : cls \in CommandClasses, key \in Keys}
InteractionIds == ServerIds \cup {99}

\* A CommandState as constructed.  pre_registration: its keys in the order
\* of insertion and the list under each; command_store: the class under
\* each id; _application_id: whether it is known; op, cls, guild, id, exc:
\* the last call, its argument and what it raised; calls: the HTTP requests
\* and the callbacks of that call, in order; was: pre_registration before it.
NoCommandState ==
    [pre_registration |-> [keys |-> << >>, lists |-> [k \in Keys |-> << >>]],
     command_store |-> [i \in InteractionIds |-> NoClass],
     _application_id |-> FALSE,
     op |-> "init", cls |-> NoClass, guild |-> 0, id |-> 0, exc |-> "none",
     calls |-> << >>,
     was |-> [keys |-> << >>, lists |-> [k \in Keys |-> << >>]]]

\* No call of create_slash_commands.  slash_commands, slash_command_guilds:
\* the options of the bot; commands: its commands; calls: the HTTP requests
\* of the call, in order; exc: what the call raised.
NoRegistration ==
    [pc |-> "idle", slash_commands |-> FALSE, slash_command_guilds |-> NoGuildList,
     commands |-> << >>, calls |-> << >>, exc |-> "none"]

AppIdle ==
    /\ modal = NoModal
    /\ command_state = NoCommandState
    /\ registration = NoRegistration

----------------------------------------------------------------------------
(* The state machine *)

EmptyBot ==
    [ext |-> [m \in ModNames |-> NoLib], mods |-> [m \in ModNames |-> NoLib],
     cogs |-> [c \in CogNames |-> NoCog], cmds |-> [n \in TopNames |-> NoCmd],
     kids |-> {}, evs |-> [e \in Events |-> << >>]]

Init ==
    /\ extensions = EmptyBot.ext
    /\ sys_modules = EmptyBot.mods
    /\ cogs = EmptyBot.cogs
    /\ all_commands = EmptyBot.cmds
    /\ subcommands = EmptyBot.kids
    /\ extra_events = EmptyBot.evs
    /\ last = [op |-> "init", name |-> NoName, package |-> NoName,
               exc |-> "none", cause |-> "none", calls |-> << >>]
    /\ _checks = << >>
    /\ _check_once = << >>
    /\ task = NoTask
    /\ events = << >>
    /\ command_prefix = Plain(Str(<<"!">>))
    /\ strip_after_prefix = FALSE
    /\ message = NoMessage
    /\ context = NoContext
    /\ slash = NoSlash
    /\ quoted = NoQuoted
    /\ AppIdle

\* The (name, package) arguments the calls are made with.
CallArgs == {<<P, NoName>>, <<PQ, NoName>>, <<RelS, NoName>>, <<RelS, P>>}

\* importlib imports the parent package of a dotted name to find its spec;
\* the calls with a dotted name are made while the parent is imported.
ParentImported(a) ==
    _resolve_name(a[1], a[2]).name = PSub => sys_modules[P] # NoLib

\* The files a call with arguments a may find: only p's file varies.
Files(a) == IF a[1] = P THEN PVersions ELSE {"none"}

\* The call returned or raised: the bot is as r.b, and the observer records it.
Finish(op, a, r) ==
    \E nb \in {Renumber(Collect(r.b))} :
        /\ LiveIds(nb) \subseteq 1..MaxId
        /\ extensions' = nb.ext
        /\ sys_modules' = nb.mods
        /\ cogs' = nb.cogs
        /\ all_commands' = nb.cmds
        /\ subcommands' = nb.kids
        /\ extra_events' = nb.evs
        /\ last' = [op |-> op, name |-> a[1], package |-> a[2],
                    exc |-> r.exc, cause |-> r.cause,
                    calls |-> [i \in 1..Len(r.calls) |-> <<r.calls[i].fn, r.calls[i].raised>>]]
        /\ UNCHANGED <<invVars, ctxVars, slashVars, appVars>>

\* The outcomes to draw for a call of the setup or teardown of a module made
\* from file version v: where setup raises, whether teardown raises.
Ks(v)  == IF Src(v).body = "ok" /\ Src(v).setup
          THEN (0..Len(Src(v).script)) \cup {MaxK} ELSE {MaxK}
Tds(v) == IF Src(v).teardown THEN Outcomes ELSE {"ok"}

\* The module object a call with arguments a is about, if it is loaded.
Loaded(a) == extensions[IF a[1] = RelS THEN PSub ELSE a[1]]

LoadExtension ==
    \E a \in CallArgs :
        \E file \in Files(a) :
            \E k \in Ks(FileOf(a[1], file)), td \in Tds(FileOf(a[1], file)) :
                /\ ParentImported(a)
                /\ \E r \in {load_extension(Bot, a[1], a[2], file, k, td, LiveIds(Bot))} :
                       Finish("load", a, r)

UnloadExtension ==
    \E a \in CallArgs :
        \E td \in Tds(Loaded(a).ver) :
            \E r \in {unload_extension(Bot, a[1], a[2], td)} : Finish("unload", a, r)

\* The second teardown and setup call of a reload are made only when its
\* load step raised: only then are their outcomes drawn.
ReloadExtension ==
    \E a \in CallArgs :
        \E file \in Files(a) :
            \E td \in Tds(Loaded(a).ver), k \in Ks(FileOf(a[1], file)) :
                \E r \in {reload_extension(Bot, a[1], a[2], file, Oracle(td, k, "ok", MaxK),
                                           LiveIds(Bot))} :
                    \/ Finish("reload", a, r)
                    \/ /\ r.exc # "none"
                       /\ r.calls # << >>
                       /\ \E td2 \in Tds(FileOf(a[1], file)), k2 \in Ks(Loaded(a).ver) :
                              \E r2 \in {reload_extension(Bot, a[1], a[2], file,
                                                          Oracle(td, k, td2, k2), LiveIds(Bot))} :
                                  Finish("reload", a, r2)

Next == LoadExtension \/ UnloadExtension \/ ReloadExtension

Spec == Init /\ [][Next]_vars

----------------------------------------------------------------------------
(* What is registered in a bot, and for which extension *)

\* The name a call with arguments a is about.
Key(a) == _resolve_name(a[1], a[2]).name
Resolvable(a) == _resolve_name(a[1], a[2]).err = "none"

\* The command objects of the bot's command tree: the top-level ones, and
\* the children of every group among them, at any depth.
RECURSIVE Descendants(_, _)
Descendants(kids, S) ==
    LET more == {p[2] : p \in {q \in kids : q[1] \in S}}
    IN  IF more \subseteq S THEN S ELSE Descendants(kids, S \cup more)

Registered(b) == Descendants(b.kids, {b.cmds[n] : n \in TopNames} \ {NoCmd})

\* What of extension `name` is in the bot, as objects: its cogs, its
\* top-level commands, its subcommands with the group they are under, and
\* its listeners.
Owned(b, name) ==
    [cogs |-> {c \in {b.cogs[x] : x \in CogNames} :
                  c # NoCog /\ _is_submodule(name, c.module)},
     top  |-> {c \in {b.cmds[n] : n \in TopNames} :
                  c # NoCmd /\ _is_submodule(name, c.module)},
     sub  |-> {p \in b.kids : p[1] \in Registered(b) /\ _is_submodule(name, p[2].module)},
     evs  |-> UNION {{<<e, b.evs[e][i]>> : i \in {n \in 1..Len(b.evs[e]) :
                                               _is_submodule(name, b.evs[e][n].module)}} :
                        e \in Events}]

Nothing == [cogs |-> {}, top |-> {}, sub |-> {}, evs |-> {}]

\* The same without the identities: what is registered, by name and place.
NameOf(c) == <<c.name, c.module>>
OwnedNames(b, name) ==
    LET o == Owned(b, name)
    IN  [cogs |-> {NameOf(c) : c \in o.cogs},
         top  |-> {NameOf(c) : c \in o.top},
         sub  |-> {<<NameOf(p[1]), NameOf(p[2])>> : p \in o.sub},
         evs  |-> {<<el[1], NameOf(el[2])>> : el \in o.evs}]

----------------------------------------------------------------------------
(* reload_extension: atomicity *)

\* Statement st of lib's entry point has its effect in the current bot.
StepRegistered(lib, st) ==
    LET obj == Obj(lib, st.name, st.module, st.group) IN
    CASE st.kind = "command" -> all_commands[st.name] = obj
      [] st.kind = "sub" ->
           \E p \in subcommands : p[2] = obj /\ all_commands[st.under] = p[1]
      [] st.kind = "listener" ->
           \E i \in 1..Len(extra_events[st.under]) :
               extra_events[st.under][i] = [obj EXCEPT !.group = FALSE]
      [] OTHER -> cogs[st.name] = [name |-> st.name, module |-> st.module, gen |-> obj.gen]

\* The extension is in the table, imported, and all its entry point
\* registers is registered.
FullyLoaded(name) ==
    LET lib == extensions[name] IN
    /\ lib # NoLib
    /\ sys_modules[name] = lib
    /\ \A i \in 1..Len(Src(lib.ver).script) : StepRegistered(lib, Src(lib.ver).script[i])

\* The last call was a reload of an extension that was loaded: a reload of
\* any other name makes no call of user code.
ReloadedLoaded == last.op = "reload" /\ last.calls # << >>

\* C1: after a reload_extension call on a loaded extension has ended, in
\* whatever way, the extension is in the table and fully on one version
\* (its entry point ran to completion and its module is imported): it is
\* never missing, also when the re-run of the old entry point fails.
C1_ReloadEndsFullyLoaded ==
    ReloadedLoaded => FullyLoaded(Key(<<last.name, last.package>>))

\* C2: a reload whose load phase fails leaves the commands registered for
\* the extension the same as before the call, by name and by identity.
C2_FailedReloadKeepsCommands ==
    \A a \in CallArgs : \A file \in Files(a) :
        \A td \in Tds(Loaded(a).ver), k \in Ks(FileOf(a[1], file)),
           td2 \in Tds(FileOf(a[1], file)), k2 \in Ks(Loaded(a).ver) :
            \A r \in {reload_extension(Bot, a[1], a[2], file, Oracle(td, k, td2, k2),
                                       LiveIds(Bot))} :
                (Loaded(a) # NoLib /\ r.exc # "none")
                    => \A o \in {Owned(r.b, Key(a))} : \A o0 \in {Owned(Bot, Key(a))} :
                           o.top = o0.top /\ o.sub = o0.sub

----------------------------------------------------------------------------
(* unload_extension *)

\* C3: after unload_extension(P) has returned, no cog, no command anywhere
\* in the bot's command tree (top-level or under any group) and no listener
\* of P or of a submodule of P is left in the bot.
C3_UnloadRemovesEverything ==
    (last.op = "unload" /\ last.exc = "none")
        => Owned(Bot, Key(<<last.name, last.package>>)) = Nothing

\* C4: unload_extension(P) immediately followed by a successful
\* load_extension(P) of the same source leaves exactly the commands and
\* listeners attributed to P that there were before the unload.
C4_UnloadLoadRoundTrip ==
    \A a \in CallArgs :
        \A td \in Tds(Loaded(a).ver), k \in Ks(Loaded(a).ver), td2 \in Tds(Loaded(a).ver) :
            \A u \in {unload_extension(Bot, a[1], a[2], td)} :
                \A l \in {load_extension(u.b, a[1], a[2], Loaded(a).ver, k, td2, LiveIds(u.b))} :
                    (Loaded(a) # NoLib /\ u.exc = "none" /\ l.exc = "none")
                        => \A o \in {OwnedNames(l.b, Key(a))} :
                               \A o0 \in {OwnedNames(Bot, Key(a))} :
                                   o.top = o0.top /\ o.sub = o0.sub /\ o.evs = o0.evs

\* C5: a failure of the teardown hook is swallowed: whether the extension
\* has no teardown, or its teardown returns, or raises, unload_extension of
\* a loaded extension returns normally, the extension is out of the table,
\* and its module entry and every submodule entry are out of sys.modules.
C5_UnloadWhateverTeardownDoes ==
    [][ \A a \in {<<last'.name, last'.package>>} :
            (last'.op = "unload" /\ Resolvable(a) /\ extensions[Key(a)] # NoLib)
                => /\ last'.exc = "none"
                   /\ extensions'[Key(a)] = NoLib
                   /\ \A m \in ModNames :
                          (m = Key(a) \/ _is_submodule(extensions[Key(a)].name, m))
                              => sys_modules'[m] = NoLib ]_vars

\* An unload whose teardown raised has returned, the submodule that was
\* imported before it is gone with the module.
C5_TeardownRaised ==
    /\ last.op = "unload"
    /\ \E i \in 1..Len(last.calls) : last.calls[i] = <<"teardown", "TeardownError">>
    /\ last.exc = "none"
    /\ extensions[P] = NoLib /\ sys_modules[P] = NoLib /\ sys_modules[PSub] = NoLib

----------------------------------------------------------------------------
(* load_extension *)

\* The objects extension `name` owns in b that module object number id made.
MadeBy(b, name, id) ==
    LET o == Owned(b, name)
    IN  {c \in o.cogs : c.gen = id} \cup {c \in o.top : c.gen = id}
        \cup {p[2] : p \in {q \in o.sub : q[2].gen = id}}
        \cup {el[2] : el \in {x \in o.evs : x[2].gen = id}}

\* C6: when the entry point raises during load_extension(P), every cog,
\* command and listener of P that the entry point had registered is removed
\* again, P is not in the table, and the error raised wraps the entry
\* point's own error as its cause.
C6_FailedSetupLeavesNothing ==
    \A a \in CallArgs : \A file \in Files(a) :
        \A k \in Ks(FileOf(a[1], file)), td \in Tds(FileOf(a[1], file)) :
            \A r \in {load_extension(Bot, a[1], a[2], file, k, td, LiveIds(Bot))} :
                (ParentImported(a) /\ Len(r.calls) >= 2 /\ r.calls[2].raised # "none")
                    => /\ r.exc = "ExtensionFailed"
                       /\ r.cause = r.calls[2].raised
                       /\ r.b.ext[Key(a)] = NoLib
                       /\ MadeBy(r.b, Key(a), r.calls[1].id) = {}

\* C7: for a name that is not loaded, a load_extension that fails in any
\* way (name unresolvable, module not found, module body raises, no entry
\* point, entry point raises) leaves the table as it was, the extension not
\* in it, and no module entry for the name; and the table gains the entry
\* only in a call whose entry point has returned without an error.
C7_FailedLoadLeavesNoEntry ==
    [][ \A a \in {<<last'.name, last'.package>>} :
            last'.op = "load"
                => /\ (last'.exc # "none" /\ (Resolvable(a) => extensions[Key(a)] = NoLib))
                          => /\ extensions' = extensions
                             /\ Resolvable(a)
                                    => extensions'[Key(a)] = NoLib /\ sys_modules'[Key(a)] = NoLib
                   /\ extensions' # extensions
                          => /\ last'.exc = "none"
                             /\ last'.calls # << >>
                             /\ last'.calls[Len(last'.calls)] = <<"setup", "none">>
                             /\ extensions'[Key(a)] # NoLib ]_vars

\* A load has failed in its entry point, after the module was imported.
C7_LoadFailedInSetup ==
    /\ last.op = "load" /\ last.name = P
    /\ last.exc = "ExtensionFailed" /\ last.cause = "SetupError"
    /\ extensions[P] = NoLib /\ sys_modules[P] = NoLib

\* C8: load_extension on a name that is in the table raises
\* ExtensionAlreadyLoaded, runs no user code, and leaves the table, the
\* modules and everything registered as they were.
C8_LoadOfLoadedIsRefused ==
    [][ \A a \in {<<last'.name, last'.package>>} :
            (last'.op = "load" /\ Resolvable(a) /\ extensions[Key(a)] # NoLib)
                => /\ last'.exc = "ExtensionAlreadyLoaded"
                   /\ last'.calls = << >>
                   /\ UNCHANGED extVars ]_vars

\* A load of a loaded extension has been refused.
C8_Refused ==
    /\ last.op = "load" /\ last.exc = "ExtensionAlreadyLoaded"
    /\ extensions[Key(<<last.name, last.package>>)] # NoLib

----------------------------------------------------------------------------
(* unload_extension and reload_extension of a name that is not loaded *)

\* C9, with its condition made exact: unload_extension and reload_extension
\* on a name that resolves and is not in the table raise ExtensionNotLoaded,
\* run no user code and change nothing.
C9_NotLoadedIsRefused ==
    [][ \A a \in {<<last'.name, last'.package>>} :
            (last'.op \in {"unload", "reload"} /\ Resolvable(a) /\ extensions[Key(a)] = NoLib)
                => /\ last'.exc = "ExtensionNotLoaded"
                   /\ last'.calls = << >>
                   /\ UNCHANGED extVars ]_vars

\* A reload of a name that resolves and is not loaded has been refused,
\* with other extensions loaded.
C9_Refused ==
    /\ last.op = "reload" /\ last.exc = "ExtensionNotLoaded"
    /\ Resolvable(<<last.name, last.package>>)
    /\ extensions[Key(<<last.name, last.package>>)] = NoLib
    /\ \E m \in ModNames : extensions[m] # NoLib

\* C9 as it is written: on any name that is not loaded, a name that does not
\* resolve among them, the two raise ExtensionNotLoaded and change nothing.
C9_AnyNameNotLoaded ==
    [][ \A a \in {<<last'.name, last'.package>>} :
            (last'.op \in {"unload", "reload"}
             /\ ~ (Resolvable(a) /\ extensions[Key(a)] # NoLib))
                => /\ last'.exc = "ExtensionNotLoaded"
                   /\ UNCHANGED extVars ]_vars

----------------------------------------------------------------------------
(* reload_extension and unload_extension followed by load_extension *)

\* The calls of user code without the identities of the module objects.
CallsOf(calls) ==
    [i \in 1..Len(calls) |-> <<calls[i].fn, calls[i].ver, calls[i].raised>>]

\* C10: when no step fails, reload_extension is unload_extension followed
\* by load_extension: the one succeeds exactly when the two do, and they
\* end with the same table, modules, commands, cogs and listeners (up to
\* the identities of the new objects) after the same sequence of teardown,
\* module body and entry point calls.
C10_ReloadIsUnloadThenLoad ==
    \A a \in CallArgs : \A file \in Files(a) : \A td \in Tds(Loaded(a).ver) :
        \A r \in {reload_extension(Bot, a[1], a[2], file, Oracle(td, MaxK, "ok", MaxK),
                                   LiveIds(Bot))} :
            \A u \in {unload_extension(Bot, a[1], a[2], td)} :
                \A l \in {load_extension(u.b, a[1], a[2], file, MaxK, "ok", LiveIds(u.b))} :
                    /\ r.exc = "none" <=> (u.exc = "none" /\ l.exc = "none")
                    /\ r.exc = "none"
                           => /\ Renumber(Collect(r.b)) = Renumber(Collect(l.b))
                              /\ CallsOf(r.calls) = CallsOf(u.calls \o l.calls)

\* A reload has replaced a module by one made from another version of its
\* file, calling the old teardown, the new body and the new entry point.
C10_Reloaded ==
    /\ last.op = "reload" /\ last.exc = "none"
    /\ last.calls = << <<"teardown", "none">>, <<"exec", "none">>, <<"setup", "none">> >>
    /\ extensions[P].ver = "v2"

----------------------------------------------------------------------------
(* The dispatcher: can_run and invoke, one step for each await *)

\* discord.utils.async_all at element i of the generator (f(ctx) for f in
\* data): the check is called; a falsy value ends the loop with False, the
\* end of the list with True, an exception goes to the caller.
async_all(data, i) ==
    IF i > Len(data)
    THEN [pc |-> "return", value |-> "True", raised |-> "none", called |-> << >>]
    ELSE IF CheckSrc(data[i]).raises # "none"
    THEN [pc |-> "raise", value |-> "None", raised |-> CheckSrc(data[i]).raises,
          called |-> << Event("check", data[i], "None", CheckSrc(data[i]).raises) >>]
    ELSE IF ~ Truthy(CheckSrc(data[i]).returns)
    THEN [pc |-> "return", value |-> "False", raised |-> "none",
          called |-> << Event("check", data[i], CheckSrc(data[i]).returns, "none") >>]
    ELSE [pc |-> "next", value |-> "None", raised |-> "none",
          called |-> << Event("check", data[i], CheckSrc(data[i]).returns, "none") >>]

\* A faulty variant of can_run, for comparison: it reads the other list.
CanRunOtherList(call_once, i) ==
    LET data == IF call_once THEN _checks ELSE _check_once
    IN  IF Len(data) = 0
        THEN [pc |-> "return", value |-> "True", raised |-> "none", called |-> << >>]
        ELSE async_all(data, i)

\* BotBase.can_run at check i of its list.
can_run(call_once, i) ==
    LET data == IF call_once THEN _check_once ELSE _checks
    IN  IF Len(data) = 0
        THEN [pc |-> "return", value |-> "True", raised |-> "none", called |-> << >>]
        ELSE async_all(data, i)

\* The call has ended: it returned result, or raised.
Ended(t, result, raised) ==
    [t EXCEPT !.pc = "done", !.result = result, !.raised = raised]

\* A faulty variant of InvokeStart, for comparison: the token is compared
\* with None, so that an empty token counts as a command name.
InvokeStartEmptyToken(ctx) ==
    IF ctx.command # NoCmd
    THEN [events |-> dispatch(<< >>, "command", ""),
          task |-> [NoTask EXCEPT !.pc = "can_run", !.fn = "invoke", !.ctx = ctx,
                                  !.call_once = TRUE, !.i = 1]]
    ELSE IF ctx.invoked_with # None
    THEN [events |-> dispatch(<< >>, "command_error", "CommandNotFound"),
          task |-> Ended([NoTask EXCEPT !.fn = "invoke", !.ctx = ctx], "None", "none")]
    ELSE [events |-> << >>,
          task |-> Ended([NoTask EXCEPT !.fn = "invoke", !.ctx = ctx], "None", "none")]

\* invoke(ctx) to its first await: with a command, "command" is published
\* and can_run(ctx, call_once=True) entered; without one, a token that is
\* not empty is reported as not found.
InvokeStart(ctx) ==
    IF ctx.command # NoCmd
    THEN [events |-> dispatch(<< >>, "command", ""),
          task |-> [NoTask EXCEPT !.pc = "can_run", !.fn = "invoke", !.ctx = ctx,
                                  !.call_once = TRUE, !.i = 1]]
    ELSE IF ctx.invoked_with # None /\ ctx.invoked_with # << >>
    THEN [events |-> dispatch(<< >>, "command_error", "CommandNotFound"),
          task |-> Ended([NoTask EXCEPT !.fn = "invoke", !.ctx = ctx], "None", "none")]
    ELSE [events |-> << >>,
          task |-> Ended([NoTask EXCEPT !.fn = "invoke", !.ctx = ctx], "None", "none")]

\* A faulty variant of InvokeChecked, for comparison: the value can_run
\* returned is not looked at.
InvokeCheckedAnyway(t, r) ==
    IF r.pc = "raise"
    THEN IF r.raised \in CommandErrors
         THEN [t EXCEPT !.pc = "dispatch_error", !.exc = r.raised]
         ELSE Ended(t, "None", r.raised)
    ELSE [t EXCEPT !.pc = "run"]

\* A faulty variant of InvokeChecked, for comparison: failed checks end the
\* invocation without an error.
InvokeCheckedSilently(t, r) ==
    IF r.pc = "raise"
    THEN IF r.raised \in CommandErrors
         THEN [t EXCEPT !.pc = "dispatch_error", !.exc = r.raised]
         ELSE Ended(t, "None", r.raised)
    ELSE IF Truthy(r.value)
    THEN [t EXCEPT !.pc = "run"]
    ELSE Ended(t, "None", "none")

\* invoke, where can_run has returned or raised (r): a true value runs the
\* command, a false one raises CheckFailure; a command error is caught for
\* the command's error handlers, anything else leaves invoke.
InvokeChecked(t, r) ==
    IF r.pc = "raise"
    THEN IF r.raised \in CommandErrors
         THEN [t EXCEPT !.pc = "dispatch_error", !.exc = r.raised]
         ELSE Ended(t, "None", r.raised)
    ELSE IF Truthy(r.value)
    THEN [t EXCEPT !.pc = "run"]
    ELSE [t EXCEPT !.pc = "dispatch_error", !.exc = "CheckFailure"]

\* A faulty variant of InvokeRan, for comparison: "command_completion" is
\* published whatever the command did.
InvokeRanCompletes(t, log, out) ==
    [events |-> dispatch(Append(log, Event("invoke", t.ctx.command.name, "None",
                                           IF out = "ok" THEN "none" ELSE out)),
                         "command_completion", ""),
     task |-> IF out = "ok" THEN Ended(t, "None", "none")
              ELSE IF out \in CommandErrors
              THEN [t EXCEPT !.pc = "dispatch_error", !.exc = out]
              ELSE Ended(t, "None", out)]

\* A faulty variant of InvokeRan, for comparison: every exception of the
\* command goes to its error handlers.
InvokeRanCatchesAll(t, log, out) ==
    IF out = "ok"
    THEN [events |-> dispatch(Append(log, Event("invoke", t.ctx.command.name, "None", "none")),
                              "command_completion", ""),
          task |-> Ended(t, "None", "none")]
    ELSE [events |-> Append(log, Event("invoke", t.ctx.command.name, "None", out)),
          task |-> [t EXCEPT !.pc = "dispatch_error", !.exc = out]]

\* invoke, where ctx.command.invoke(ctx) has returned or raised (out): the
\* else branch publishes "command_completion".
InvokeRan(t, log, out) ==
    IF out = "ok"
    THEN [events |-> dispatch(Append(log, Event("invoke", t.ctx.command.name, "None", "none")),
                              "command_completion", ""),
          task |-> Ended(t, "None", "none")]
    ELSE [events |-> Append(log, Event("invoke", t.ctx.command.name, "None", out)),
          task |-> IF out \in CommandErrors
                   THEN [t EXCEPT !.pc = "dispatch_error", !.exc = out]
                   ELSE Ended(t, "None", out)]

Idle == task.pc \in {"idle", "done"}

\* add_check(func, call_once=...), between two calls; the record of the
\* call that ended before it is dropped.
AddCheck ==
    /\ Idle
    /\ Len(_checks) + Len(_check_once) < MaxChecks
    /\ \E func \in CheckNames, call_once \in BOOLEAN :
           IF call_once
           THEN _check_once' = Append(_check_once, func) /\ UNCHANGED _checks
           ELSE _checks' = Append(_checks, func) /\ UNCHANGED _check_once
    /\ task' = NoTask
    /\ events' = << >>
    /\ UNCHANGED <<extVars, ctxVars, slashVars, appVars, last>>

\* remove_check(func, call_once=...) on the two lists: the list is chosen
\* by call_once, and the ValueError of its remove is passed over.
remove_check(checks, check_once, func, call_once) ==
    IF call_once
    THEN [_checks |-> checks, _check_once |-> Remove(check_once, func).l, exc |-> "none"]
    ELSE [_checks |-> Remove(checks, func).l, _check_once |-> check_once, exc |-> "none"]

\* remove_check(func, call_once=...), between two calls.
RemoveCheck ==
    /\ Idle
    /\ \E func \in CheckNames, call_once \in BOOLEAN :
           /\ _checks' = remove_check(_checks, _check_once, func, call_once)._checks
           /\ _check_once' = remove_check(_checks, _check_once, func, call_once)._check_once
    /\ task' = NoTask
    /\ events' = << >>
    /\ UNCHANGED <<extVars, ctxVars, slashVars, appVars, last>>

\* can_run(ctx, call_once=...) called on its own.
CanRun ==
    /\ Idle
    /\ \E ctx \in Contexts, call_once \in BOOLEAN :
           task' = [NoTask EXCEPT !.pc = "can_run", !.fn = "can_run", !.ctx = ctx,
                                  !.call_once = call_once, !.i = 1]
    /\ events' = << >>
    /\ UNCHANGED <<extVars, ctxVars, slashVars, appVars, last, _checks, _check_once>>

\* invoke(ctx) is called.
Invoke ==
    /\ Idle
    /\ \E ctx \in Contexts :
           \E r \in {InvokeStart(ctx)} : events' = r.events /\ task' = r.task
    /\ UNCHANGED <<extVars, ctxVars, slashVars, appVars, last, _checks, _check_once>>

\* The next check of the can_run in progress is called and awaited.
EvalCheck ==
    /\ task.pc = "can_run"
    /\ \E r \in {can_run(task.call_once, task.i)} :
           /\ events' = events \o r.called
           /\ task' = IF r.pc = "next" THEN [task EXCEPT !.i = @ + 1]
                      ELSE IF task.fn = "invoke" THEN InvokeChecked(task, r)
                      ELSE Ended(task, r.value, r.raised)
    /\ UNCHANGED <<extVars, ctxVars, slashVars, appVars, last, _checks, _check_once>>

\* await ctx.command.invoke(ctx), and what follows it.
RunCommand ==
    /\ task.pc = "run"
    /\ \E out \in RunOutcomes :
           \E r \in {InvokeRan(task, events, out)} : events' = r.events /\ task' = r.task
    /\ UNCHANGED <<extVars, ctxVars, slashVars, appVars, last, _checks, _check_once>>

\* await ctx.command.dispatch_error(ctx, exc)
DispatchError ==
    /\ task.pc = "dispatch_error"
    /\ \E out \in HandlerOutcomes :
           /\ events' = Append(events, Event("dispatch_error", task.ctx.command.name, task.exc,
                                             IF out = "ok" THEN "none" ELSE out))
           /\ task' = Ended(task, "None", IF out = "ok" THEN "none" ELSE out)
    /\ UNCHANGED <<extVars, ctxVars, slashVars, appVars, last, _checks, _check_once>>

NextInvoke ==
    AddCheck \/ RemoveCheck \/ CanRun \/ Invoke \/ EvalCheck \/ RunCommand \/ DispatchError

SpecInvoke == Init /\ [][NextInvoke]_vars

----------------------------------------------------------------------------
(* invoke: the order of its steps *)

\* The call in progress, or that ended last, is an invoke of a context with
\* a resolved command.
InvokingCommand == task.fn = "invoke" /\ task.ctx.command # NoCmd

\* The positions of the log with an entry of this kind (and event name).
At(kind) == {j \in 1..Len(events) : events[j].kind = kind}
Published(name) == {j \in At("dispatch") : events[j].name = name}

\* Entries 2..j-1 of the log are the calls of all call-once checks, in the
\* order of the list, each of which returned a truthy value.
AllChecksPassedBefore(j) ==
    /\ j = Len(_check_once) + 2
    /\ \A k \in 1..Len(_check_once) :
           /\ events[k + 1].kind = "check" /\ events[k + 1].name = _check_once[k]
           /\ events[k + 1].raised = "none" /\ Truthy(events[k + 1].value)

\* C11: in every invoke of a context with a resolved command the "command"
\* notification is published first, the call-once checks are evaluated
\* after it, the command is run only after the notification and after every
\* call-once check has returned true, and "command_completion" is
\* published only right after a run that raised nothing.
C11_InvokeOrder ==
    InvokingCommand
        => /\ Published("command") = {1}
           /\ \A j \in At("invoke") : AllChecksPassedBefore(j)
           /\ \A j \in Published("command_completion") :
                  /\ j = Len(events)
                  /\ events[j - 1].kind = "invoke" /\ events[j - 1].raised = "none"
           /\ Cardinality(At("invoke")) <= 1

\* An invoke with two call-once checks has run the command and published
\* its completion.
C11_RanAfterTwoChecks ==
    /\ InvokingCommand /\ task.pc = "done" /\ Len(_check_once) = 2
    /\ Published("command_completion") = {5} /\ At("invoke") = {4}

----------------------------------------------------------------------------
(* invoke: call-once checks that fail *)

\* The positions of the log where a check returned a falsy value.
FalsyChecks == {j \in At("check") : events[j].raised = "none" /\ ~ Truthy(events[j].value)}

\* C12: once a call-once check of an invoke with a resolved command has
\* returned a falsy value, the command is not run and "command_completion"
\* is not published; a CheckFailure is pending for the command's
\* dispatch_error, or has been handed to it, once, as the last step.
C12_FailedCheckIsDispatched ==
    (InvokingCommand /\ FalsyChecks # {})
        => /\ At("invoke") = {}
           /\ Published("command_completion") = {}
           /\ \/ /\ task.pc = "dispatch_error" /\ task.exc = "CheckFailure"
                 /\ At("dispatch_error") = {}
              \/ /\ task.pc = "done"
                 /\ At("dispatch_error") = {Len(events)}
                 /\ events[Len(events)].value = "CheckFailure"

\* An invoke whose second call-once check returned a falsy value has ended
\* in the command's dispatch_error.
C12_SecondCheckFailed ==
    /\ InvokingCommand /\ task.pc = "done"
    /\ FalsyChecks = {3}
    /\ At("dispatch_error") = {4}

----------------------------------------------------------------------------
(* can_run *)

\* The list the can_run of the call reads.
DataOf(t) == IF t.call_once THEN _check_once ELSE _checks

\* The check returns a truthy value.
Passes(f) == CheckSrc(f).raises = "none" /\ Truthy(CheckSrc(f).returns)

\* C13: a can_run over either list calls the checks of that list in the
\* order of registration, calls none after the first that returned a falsy
\* value, returns True exactly when every check of the list returns a
\* truthy value, and with an empty list returns True without calling any.
C13_CanRunIsConjunction ==
    task.fn = "can_run"
        => /\ Len(events) <= Len(DataOf(task))
           /\ \A j \in 1..Len(events) :
                  events[j].kind = "check" /\ events[j].name = DataOf(task)[j]
           /\ \A j \in 1..(Len(events) - 1) :
                  events[j].raised = "none" /\ Truthy(events[j].value)
           /\ (task.pc = "done" /\ task.raised = "none")
                  => /\ task.result \in {"True", "False"}
                     /\ task.result = "True"
                            <=> \A k \in 1..Len(DataOf(task)) : Passes(DataOf(task)[k])
                     /\ task.result = "True" => Len(events) = Len(DataOf(task))
                     /\ task.result = "False" => FalsyChecks = {Len(events)}

\* A can_run over the every-invocation list returned False at the first of
\* two checks, and the second was not called.
C13_StoppedAtFirstFalsy ==
    /\ task.fn = "can_run" /\ ~ task.call_once /\ task.pc = "done"
    /\ Len(_checks) = 2 /\ Len(events) = 1
    /\ task.result = "False"

----------------------------------------------------------------------------
(* invoke of a context without a command *)

\* The invocation token of the context is a string that is not empty.
HasToken(ctx) == ctx.invoked_with # None /\ ctx.invoked_with # << >>

\* C14: an invoke of a context with no resolved command returns at once;
\* with a token that is not empty it has published "command_error" once,
\* carrying CommandNotFound, and nothing else; with no token or an empty
\* one it has published nothing.
C14_NoCommand ==
    (task.fn = "invoke" /\ task.ctx.command = NoCmd)
        => /\ task.pc = "done" /\ task.raised = "none"
           /\ events = IF HasToken(task.ctx)
                       THEN << Event("dispatch", "command_error", "CommandNotFound", "none") >>
                       ELSE << >>

\* An invoke of a context with a token and no command has published the
\* error.
C14_NotFoundPublished ==
    /\ task.fn = "invoke" /\ task.ctx.command = NoCmd /\ HasToken(task.ctx)
    /\ task.pc = "done" /\ Published("command_error") = {1}

----------------------------------------------------------------------------
(* invoke: error handling or completion *)

\* C16: an invoke of a context with a resolved command never both awaits
\* the command's dispatch_error and publishes "command_completion", does
\* neither more than once, and when it has returned it has done one of the
\* two.
C16_ErrorOrCompletion ==
    InvokingCommand
        => /\ Cardinality(At("dispatch_error")) + Cardinality(Published("command_completion")) <= 1
           /\ (task.pc = "done" /\ task.raised = "none")
                  => Cardinality(At("dispatch_error"))
                         + Cardinality(Published("command_completion")) = 1

\* An invoke has returned after the command raised a command error that
\* went to dispatch_error, and no completion was published.
C16_CommandErrorHandled ==
    /\ InvokingCommand /\ task.pc = "done" /\ task.raised = "none"
    /\ At("invoke") # {} /\ At("dispatch_error") = {Len(events)}
    /\ events[Len(events)].value = "CommandInvokeError"

----------------------------------------------------------------------------
(* get_prefix and get_context, one step for each await *)

\* A faulty variant of get_prefix, for comparison: an empty list is
\* returned as it is.
GetPrefixAllowsEmpty(msg) ==
    IF msg.fake
    THEN [ret |-> Str(<<"/">>), exc |-> "none", called |-> 0]
    ELSE [ret |-> command_prefix.value, exc |-> "none",
          called |-> IF command_prefix.callable THEN 1 ELSE 0]

\* A faulty variant of get_prefix, for comparison: command_prefix is looked
\* at for the messages made from an interaction too.
GetPrefixOfFake(msg) ==
    IF command_prefix.value.type = "str"
    THEN [ret |-> command_prefix.value, exc |-> "none",
          called |-> IF command_prefix.callable THEN 1 ELSE 0]
    ELSE IF command_prefix.value.type \notin Iterables
    THEN [ret |-> NoValue, exc |-> "TypeError",
          called |-> IF command_prefix.callable THEN 1 ELSE 0]
    ELSE IF command_prefix.value.items = << >>
    THEN [ret |-> NoValue, exc |-> "ValueError",
          called |-> IF command_prefix.callable THEN 1 ELSE 0]
    ELSE [ret |-> List(command_prefix.value.items), exc |-> "none",
          called |-> IF command_prefix.callable THEN 1 ELSE 0]

\* A faulty variant of get_prefix, for comparison: a function that the
\* command_prefix function returns is called too.
GetPrefixCallsAgain(msg) ==
    IF msg.fake
    THEN [ret |-> Str(<<"/">>), exc |-> "none", called |-> 0]
    ELSE IF command_prefix.value.type = "function"
    THEN [ret |-> Str(command_prefix.value.items[1]), exc |-> "none", called |-> 2]
    ELSE GetPrefixOfFake(msg)

\* BotBase.get_prefix: "/" for a message made from an interaction; else
\* command_prefix, or what it returns when called (once); a string is
\* returned as it is; any other value is made a list, which raises
\* TypeError if the value is not iterable, and the list must not be empty.
get_prefix(msg) ==
    IF msg.fake
    THEN [ret |-> Str(<<"/">>), exc |-> "none", called |-> 0]
    ELSE IF command_prefix.value.type = "str"
    THEN [ret |-> command_prefix.value, exc |-> "none",
          called |-> IF command_prefix.callable THEN 1 ELSE 0]
    ELSE IF command_prefix.value.type \notin Iterables
    THEN [ret |-> NoValue, exc |-> "TypeError",
          called |-> IF command_prefix.callable THEN 1 ELSE 0]
    ELSE IF command_prefix.value.items = << >>
    THEN [ret |-> NoValue, exc |-> "ValueError",
          called |-> IF command_prefix.callable THEN 1 ELSE 0]
    ELSE [ret |-> List(command_prefix.value.items), exc |-> "none",
          called |-> IF command_prefix.callable THEN 1 ELSE 0]

\* A faulty variant of GetContextStart, for comparison: the author is not
\* looked at.
GetContextStartAnyAuthor(msg) ==
    [NoContext EXCEPT !.view = StringView(msg.content), !.pc = "get_prefix"]

\* get_context to its await: the view and the context are made, and the
\* context is returned as it is for a message of the bot itself.
GetContextStart(msg) ==
    IF msg.author.id = user.id
    THEN [NoContext EXCEPT !.view = StringView(msg.content), !.pc = "done"]
    ELSE [NoContext EXCEPT !.view = StringView(msg.content), !.pc = "get_prefix"]

\* get_context, where the word has been read (w): the fields of the context
\* are set and the command is looked up.
GetContextWord(c, invoked_prefix, w) ==
    [c EXCEPT !.pc = "done", !.view = w.view, !.invoked_with = w.word,
              !.prefix = invoked_prefix,
              !.command = Get(all_commands, w.word),
              !.looked_up = << w.word >>]

\* A faulty variant of GetContextMatched, for comparison: the whitespace
\* after the prefix is never skipped.
GetContextMatchedKeepsSpace(c, invoked_prefix, view) ==
    GetContextWord(c, invoked_prefix, get_word(view))

\* get_context, where the prefix has been skipped (the view is past it):
\* the whitespace is skipped if strip_after_prefix, and the word is read.
GetContextMatched(c, invoked_prefix, view) ==
    GetContextWord(c, invoked_prefix,
                   get_word(IF strip_after_prefix THEN skip_ws(view) ELSE view))

\* get_context, where find has returned or raised (f): the except clause
\* finds the element of the list that is not a string and raises
\* TypeError; there is none when find has returned.
GetContextFound(c, f) ==
    IF f.exc # "none" THEN [c EXCEPT !.pc = "done", !.exc = "TypeError"]
    ELSE GetContextMatched(c, f.value, f.view)

\* The elements of the list that the content begins with, and the longest.
Matching(content, prefix) ==
    {i \in 1..Len(prefix) : prefix[i] # None /\ Slice(content, 0, Len(prefix[i])) = prefix[i]}
Longest(content, prefix) ==
    prefix[CHOOSE i \in Matching(content, prefix) :
               \A j \in Matching(content, prefix) : Len(prefix[j]) <= Len(prefix[i])]

\* A faulty variant of GetContextResolved, for comparison: of a list, the
\* longest element that the content begins with is taken.
GetContextResolvedLongest(c, prefix, msg) ==
    IF prefix.type = "str"
    THEN IF ~ skip_string(c.view, prefix.items[1]).ok
         THEN [c EXCEPT !.pc = "done"]
         ELSE GetContextMatched(c, prefix.items[1], skip_string(c.view, prefix.items[1]).view)
    ELSE IF startswith(msg.content, prefix.items, 1).exc # "none"
    THEN [c EXCEPT !.pc = "done", !.exc = "TypeError"]
    ELSE IF startswith(msg.content, prefix.items, 1).value
    THEN GetContextMatched(c, Longest(msg.content, prefix.items),
                           skip_string(c.view, Longest(msg.content, prefix.items)).view)
    ELSE [c EXCEPT !.pc = "done"]

\* A faulty variant of GetContextResolved, for comparison: of a list, the
\* last element that the view can skip is taken.
GetContextResolvedLast(c, prefix, msg) ==
    IF prefix.type = "str"
    THEN IF ~ skip_string(c.view, prefix.items[1]).ok
         THEN [c EXCEPT !.pc = "done"]
         ELSE GetContextMatched(c, prefix.items[1], skip_string(c.view, prefix.items[1]).view)
    ELSE IF startswith(msg.content, prefix.items, 1).exc # "none"
    THEN [c EXCEPT !.pc = "done", !.exc = "TypeError"]
    ELSE IF startswith(msg.content, prefix.items, 1).value
    THEN GetContextFound(c, find(c.view, [i \in 1..Len(prefix.items) |->
                                              prefix.items[Len(prefix.items) + 1 - i]], 1))
    ELSE [c EXCEPT !.pc = "done"]

\* A faulty variant of GetContextResolved, for comparison: with no match
\* the word at the start of the content is read all the same.
GetContextResolvedAnyway(c, prefix, msg) ==
    IF prefix.type = "str"
    THEN IF ~ skip_string(c.view, prefix.items[1]).ok
         THEN GetContextMatched(c, prefix.items[1], c.view)
         ELSE GetContextMatched(c, prefix.items[1], skip_string(c.view, prefix.items[1]).view)
    ELSE IF startswith(msg.content, prefix.items, 1).exc # "none"
    THEN [c EXCEPT !.pc = "done", !.exc = "TypeError"]
    ELSE IF startswith(msg.content, prefix.items, 1).value
    THEN GetContextFound(c, find(c.view, prefix.items, 1))
    ELSE GetContextMatched(c, prefix.items[1], c.view)

\* get_context, where get_prefix has returned prefix: a string is skipped,
\* or of a list the first element that the view can skip; with no match
\* the context is returned as it is.  A TypeError of startswith or find is
\* caught and, the prefix being a list, TypeError is raised.
GetContextResolved(c, prefix, msg) ==
    IF prefix.type = "str"
    THEN IF ~ skip_string(c.view, prefix.items[1]).ok
         THEN [c EXCEPT !.pc = "done"]
         ELSE GetContextMatched(c, prefix.items[1], skip_string(c.view, prefix.items[1]).view)
    ELSE IF startswith(msg.content, prefix.items, 1).exc # "none"
    THEN [c EXCEPT !.pc = "done", !.exc = "TypeError"]
    ELSE IF startswith(msg.content, prefix.items, 1).value
    THEN GetContextFound(c, find(c.view, prefix.items, 1))
    ELSE [c EXCEPT !.pc = "done"]

\* get_context, where get_prefix has returned or raised (r).
GetContextPrefixed(c, r, msg) ==
    IF r.exc # "none"
    THEN [c EXCEPT !.pc = "done", !.exc = r.exc, !.called = r.called]
    ELSE GetContextResolved([c EXCEPT !.resolved = r.ret, !.called = r.called], r.ret, msg)

\* get_context(msg), from the call to the return.
get_context(msg) ==
    IF GetContextStart(msg).pc = "done"
    THEN GetContextStart(msg)
    ELSE GetContextPrefixed(GetContextStart(msg), get_prefix(msg), msg)

\* get_context(message) is called.
GetContext ==
    /\ context.pc = "idle"
    /\ context' = GetContextStart(message)
    /\ UNCHANGED <<extVars, invVars, slashVars, appVars, last, command_prefix, strip_after_prefix, message>>

\* await self.get_prefix(message), and the rest of get_context.
GetPrefix ==
    /\ context.pc = "get_prefix"
    /\ context' = GetContextPrefixed(context, get_prefix(message), message)
    /\ UNCHANGED <<extVars, invVars, slashVars, appVars, last, command_prefix, strip_after_prefix, message>>

\* The bot as constructed with a command_prefix and strip_after_prefix,
\* command g added, and a message.
InitContext ==
    /\ extensions = EmptyBot.ext
    /\ sys_modules = EmptyBot.mods
    /\ cogs = EmptyBot.cogs
    /\ all_commands = [EmptyBot.cmds EXCEPT !["g"] = Ping]
    /\ subcommands = EmptyBot.kids
    /\ extra_events = EmptyBot.evs
    /\ last = [op |-> "init", name |-> NoName, package |-> NoName,
               exc |-> "none", cause |-> "none", calls |-> << >>]
    /\ _checks = << >>
    /\ _check_once = << >>
    /\ task = NoTask
    /\ events = << >>
    /\ command_prefix \in Prefixes
    /\ strip_after_prefix \in BOOLEAN
    /\ message \in Messages
    /\ context = NoContext
    /\ slash = NoSlash
    /\ quoted = NoQuoted
    /\ AppIdle

\* await self.invoke(ctx) with the context get_context returned, to its
\* first await.
InvokeContext ==
    /\ context.pc = "done" /\ context.exc = "none" /\ Idle
    /\ \E r \in {InvokeStart(Ctx(context.command, context.invoked_with))} :
           events' = r.events /\ task' = r.task
    /\ UNCHANGED <<extVars, ctxVars, slashVars, appVars, last, _checks, _check_once>>

NextContext ==
    GetContext \/ GetPrefix \/ InvokeContext \/ EvalCheck \/ RunCommand \/ DispatchError

SpecContext == InitContext /\ [][NextContext]_vars

----------------------------------------------------------------------------
(* get_context: the prefix and the invocation token *)

\* String s begins with string q; s without its first n characters.
StartsWith(s, q) == Len(q) <= Len(s) /\ \A k \in 1..Len(q) : s[k] = q[k]
After(s, n) == [k \in 1..(Len(s) - n) |-> s[k + n]]

\* The first word of s: its characters up to the first whitespace.  s
\* without its leading whitespace.
FirstWord(s) ==
    LET n == CHOOSE m \in 0..Len(s) :
                 /\ \A k \in 1..m : s[k] # " "
                 /\ m = Len(s) \/ s[m + 1] = " "
    IN  [k \in 1..n |-> s[k]]
LStrip(s) ==
    LET n == CHOOSE m \in 0..Len(s) :
                 /\ \A k \in 1..m : s[k] = " "
                 /\ m = Len(s) \/ s[m + 1] # " "
    IN  After(s, n)

\* The token expected after prefix q of the content.
TokenAfter(q) ==
    FirstWord(IF strip_after_prefix THEN LStrip(After(message.content, Len(q)))
              ELSE After(message.content, Len(q)))

\* What is read of the content with prefix q: q, the whitespace after it
\* with strip_after_prefix, and the token.
Consumed(q) ==
    Len(q) + Len(TokenAfter(q))
        + (IF strip_after_prefix
           THEN Len(After(message.content, Len(q))) - Len(LStrip(After(message.content, Len(q))))
           ELSE 0)

\* get_context has returned a context for a message of another user.
Built == context.pc = "done" /\ context.exc = "none" /\ message.author.id # user.id

\* The candidates of the resolved list that the content starts with.
Hits ==
    {i \in 1..Len(context.resolved.items) :
         StartsWith(message.content, context.resolved.items[i])}
FirstHit == context.resolved.items[CHOOSE i \in Hits : \A j \in Hits : i <= j]

\* C17: when the resolved prefix is a list and the message is not by the
\* bot, the prefix of the context is the first element of the list, in its
\* order, that the content starts with, and the invocation token is the
\* word read right after that element (after the whitespace following it,
\* with strip_after_prefix); the view is at the end of that word.
C17_FirstMatchingCandidate ==
    (Built /\ context.resolved.type = "list" /\ Hits # {})
        => /\ context.prefix = FirstHit
           /\ context.invoked_with = TokenAfter(FirstHit)
           /\ context.view.index = Consumed(FirstHit)

\* With the list ("!?", "!") and the content "!?g" the prefix is "!?" and
\* the token "g".
C17_LongerCandidateFirst ==
    /\ Built
    /\ context.resolved = List(<< <<"!", "?">>, <<"!">> >>)
    /\ message.content = <<"!", "?", "g">>
    /\ context.prefix = <<"!", "?">> /\ context.invoked_with = <<"g">>

\* The context is valid: it has a prefix and a command.
Valid(c) == c.prefix # None /\ c.command # NoCmd

\* The resolved prefix is a string that the content starts with.
StringPrefixMatches ==
    /\ Built /\ context.resolved.type = "str"
    /\ StartsWith(message.content, context.resolved.items[1])

\* C18 as stated: when the resolved prefix is a string P that the content
\* starts with, the context is valid, its prefix is P and its token is the
\* first word after P.
C18_StringPrefixGivesValidContext ==
    StringPrefixMatches
        => /\ Valid(context)
           /\ context.prefix = context.resolved.items[1]
           /\ context.invoked_with = TokenAfter(context.resolved.items[1])

\* C18, amended: when the resolved prefix is a string P that the content
\* starts with, the prefix of the context is P and its token is the word
\* read right after P, after the whitespace following P exactly when
\* strip_after_prefix is set; the context is valid exactly when that token
\* is the name of a command of the bot.
C18_StringPrefixGivesToken ==
    StringPrefixMatches
        => /\ context.prefix = context.resolved.items[1]
           /\ context.invoked_with = TokenAfter(context.resolved.items[1])
           /\ Valid(context) <=> \E n \in TopNames :
                                     /\ context.invoked_with = << n >>
                                     /\ all_commands[n] # NoCmd
           /\ Valid(context) => context.command = all_commands[context.invoked_with[1]]

\* With the prefix "!" and strip_after_prefix, the content "!  g" gives the
\* token "g" and a valid context.
C18_StrippedToken ==
    /\ StringPrefixMatches /\ strip_after_prefix
    /\ message.content = <<"!", " ", " ", "g">>
    /\ context.prefix = <<"!">> /\ context.invoked_with = <<"g">>
    /\ Valid(context)

\* command_prefix is an empty list, or a function that returns one.
EmptyPrefixList == command_prefix.value = List(<< >>)

\* Nothing of the content has been read: the view is at the start, no
\* token and no prefix are set and no command was looked up.
Unparsed ==
    /\ context.view = StringView(message.content)
    /\ context.prefix = None /\ context.invoked_with = None
    /\ context.command = NoCmd /\ context.looked_up = << >>

\* C19 as stated: with an empty list as the prefix, get_context raises
\* for every message, before anything is read.
C19_EmptyListRaises ==
    (EmptyPrefixList /\ context.pc = "done")
        => context.exc = "ValueError" /\ Unparsed

\* C19, amended: with an empty list as the prefix, get_context raises
\* ValueError before anything is read, for every received message that is
\* not by the bot itself; for a message of the bot itself or one made from
\* an interaction it raises nothing.
C19_EmptyListRaisesForOthers ==
    (EmptyPrefixList /\ context.pc = "done")
        => /\ context.exc = "ValueError"
                  <=> (message.author.id # user.id /\ ~ message.fake)
           /\ context.exc \in {"none", "ValueError"}
           /\ context.exc = "ValueError" => Unparsed

\* A function given as command_prefix has returned an empty list and
\* get_context has raised.
C19_CallableReturnedEmpty ==
    /\ EmptyPrefixList /\ command_prefix.callable
    /\ context.pc = "done" /\ context.exc = "ValueError" /\ context.called = 1
    /\ Len(message.content) > 0

\* C20: for a message whose author is the bot itself, get_context returns
\* a context with no prefix, no token and no command, whatever the content
\* and command_prefix, and get_prefix is not called: no prefix is resolved
\* and a command_prefix function is not called.
C20_OwnMessageGivesNothing ==
    (message.author.id = user.id /\ context.pc # "idle")
        => /\ context.pc = "done" /\ context.exc = "none"
           /\ Unparsed
           /\ context.resolved = NoValue /\ context.called = 0

\* get_context has returned for the message "!g" of the bot itself, where
\* command_prefix is a function that returns "!".
C20_OwnCommandLine ==
    /\ message.author.id = user.id /\ context.pc = "done"
    /\ message.content = <<"!", "g">>
    /\ command_prefix = Callable(Str(<<"!">>))

----------------------------------------------------------------------------
(* get_prefix: messages made from an interaction, and prefix functions *)

\* C21: for a message made from an interaction get_prefix returns "/",
\* whatever command_prefix is: a command_prefix function is not called,
\* and an empty list or a value of a wrong type raises nothing.
C21_FakeMessagePrefix ==
    (message.fake /\ context.pc = "done")
        => /\ context.resolved = Str(<<"/">>)
           /\ context.called = 0
           /\ context.exc = "none"

\* get_context has returned for a message made from an interaction, where
\* command_prefix is a function that returns an integer.
C21_FakeMessageBadPrefix ==
    /\ message.fake /\ context.pc = "done" /\ command_prefix = Callable(Int)
    /\ context.prefix = <<"/">>

\* get_prefix has returned or raised for a received message of another
\* user, with a function as command_prefix.
PrefixFunctionCalled ==
    /\ command_prefix.callable /\ ~ message.fake /\ message.author.id # user.id
    /\ context.pc = "done"

\* What get_prefix does with what the function returned, but for a
\* function: a string is returned as it is, a list or tuple as the list of
\* its elements unless it is empty, which raises ValueError, and a value
\* that is not iterable raises TypeError.
ResultValidated ==
    /\ context.called = 1
    /\ command_prefix.value.type = "str"
           => context.resolved = command_prefix.value /\ context.exc = "none"
    /\ (command_prefix.value.type \in Iterables /\ command_prefix.value.items # << >>)
           => context.resolved = List(command_prefix.value.items)
    /\ (command_prefix.value.type \in Iterables /\ command_prefix.value.items = << >>)
           => context.resolved = NoValue /\ context.exc = "ValueError"
    /\ command_prefix.value.type = "int"
           => context.resolved = NoValue /\ context.exc = "TypeError"

\* C22 as stated: a command_prefix function is called once and its result
\* validated as a configured value is; a function it returns is resolved
\* again, to what that function returns.
C22_FunctionResultResolvedAgain ==
    PrefixFunctionCalled
        => /\ ResultValidated
           /\ command_prefix.value.type = "function"
                  => /\ context.resolved = Str(command_prefix.value.items[1])
                     /\ context.exc = "none"

\* C22, amended: a command_prefix function is called once and its result
\* validated as a configured value is; a function it returns is not
\* called: it is not iterable, and get_prefix raises TypeError.
C22_FunctionResultValidated ==
    PrefixFunctionCalled
        => /\ ResultValidated
           /\ command_prefix.value.type = "function"
                  => /\ context.resolved = NoValue /\ context.exc = "TypeError"
                     /\ Unparsed

\* A command_prefix function has returned a function, and get_context has
\* raised TypeError.
C22_FunctionReturnedFunction ==
    /\ PrefixFunctionCalled /\ command_prefix.value.type = "function"
    /\ context.called = 1 /\ context.exc = "TypeError"

----------------------------------------------------------------------------
(* get_context: the elements of a prefix list *)

\* The resolved prefix is a list with an element that is not a string, and
\* get_context has ended for a message of another user.
BadElementResolved ==
    /\ context.pc = "done" /\ message.author.id # user.id
    /\ context.resolved.type = "list"
    /\ \E i \in 1..Len(context.resolved.items) : context.resolved.items[i] = None

\* C23: whenever the resolved prefix list has an element that is not a
\* string, get_context raises TypeError for every message that is not by
\* the bot, and returns no context with a prefix.
C23_BadElementRaises ==
    BadElementResolved => context.exc = "TypeError" /\ context.prefix = None

\* Candidate i of the resolved list begins with an earlier candidate.
Shadowed(i) ==
    \E k \in 1..(i - 1) :
        StartsWith(context.resolved.items[i], context.resolved.items[k])

\* C24: when the resolved prefix is a list, the prefix of the context is a
\* candidate that the content begins with and that begins with no earlier
\* candidate; with an empty string in the list every message has a
\* prefix, which is the empty string or a candidate before it.
C24_ShadowedCandidateNeverMatched ==
    (Built /\ context.resolved.type = "list")
        => /\ context.prefix # None
                  => \E i \in Hits : context.resolved.items[i] = context.prefix /\ ~ Shadowed(i)
           /\ \A i \in 1..Len(context.resolved.items) :
                  context.resolved.items[i] = << >>
                      => \E k \in 1..i : /\ context.prefix = context.resolved.items[k]
                                         /\ \A n \in 1..(k - 1) : ~ n \in Hits

\* With the list ("?", "", "!") the content "!g" has the empty prefix and
\* the token "!g".
C24_EmptyStringShadows ==
    /\ Built
    /\ context.resolved = List(<< <<"?">>, << >>, <<"!">> >>)
    /\ message.content = <<"!", "g">>
    /\ context.prefix = << >> /\ context.invoked_with = <<"!", "g">>

----------------------------------------------------------------------------
(* process_commands and process_slash_commands *)

\* The options of an interaction's data.  Type 1 is a subcommand and type
\* 2 a subcommand group, which have options of their own; type 3 is a
\* string and type 4 an integer, which have a value.
Option(name, type, value) ==
    [name |-> name, type |-> type, value |-> value, options |-> << >>]
SubOption(name, type, options) ==
    [name |-> name, type |-> type, value |-> None, options |-> options]

\* data["options"] of the interactions: for each parameter and flag of the
\* command an option or none, in the order of the parameters or in the
\* opposite order.  The second string of a has a quote character of every
\* supported pair.
OptionsOf(name) ==
    {<< >>} \cup
        {<<o>> : o \in IF name = "a"
                       THEN {Option("a", 3, <<"v">>), Option("a", 3, <<"\"", "<">>),
                             Option("a", 4, <<"7">>)}
                       ELSE {Option(name, 3, <<"w">>)}}
OptionLists ==
    {a \o r \o s \o b \o o : a \in OptionsOf("a"), r \in OptionsOf("r"),
                             s \in OptionsOf("s"), b \in OptionsOf("b"),
                             o \in OptionsOf("o")}
        \cup {o \o b \o s \o r \o a : a \in OptionsOf("a"), r \in OptionsOf("r"),
                                      s \in OptionsOf("s"), b \in OptionsOf("b"),
                                      o \in OptionsOf("o")}
        \cup {<<SubOption("s", 1, o)>> :
                  o \in {<< >>, <<Option("a", 3, <<"v">>), Option("r", 3, <<"w">>)>>}}

\* The interactions.  data: the name of the command and the options;
\* channel: the channel is usable ("channel"), has to be created or fetched
\* ("fetch"), or is not known.
Interactions ==
    {[type |-> t, data |-> [name |-> n, options |-> o], channel |-> ch] :
         t \in {"application_command", "component"},
         n \in {<<"g">>, <<"x">>},
         o \in OptionLists,
         ch \in {"channel", "fetch", "none"}}

\* The interactions on_interaction is given where the checks and the
\* command run after it: for command g with its options a and r or
\* without, and one each of another type, for an unknown command, with a
\* channel to be fetched and without a channel.
ProcessInteractions ==
    {i \in Interactions :
         /\ \A k \in 1..Len(i.data.options) :
                i.data.options[k].name \in {"a", "r"} /\ i.data.options[k].type = 3
         /\ Len(i.data.options) > 1 => i.data.options[1].name = "a"
         /\ (i.type # "application_command" \/ i.data.name # <<"g">>)
                => i.data.options = << >> /\ i.channel = "channel"
         /\ i.channel # "channel"
                => i.data.options = <<Option("a", 3, <<"v">>), Option("r", 3, <<"w">>)>>}

\* {o["name"]: o for o in command_options}: of the options of one name the
\* last is kept.
Dict(command_options) ==
    [n \in {command_options[k].name : k \in DOMAIN command_options} |->
         command_options[CHOOSE k \in DOMAIN command_options :
                             /\ command_options[k].name = n
                             /\ \A j \in DOMAIN command_options :
                                    command_options[j].name = n => j <= k]]

\* The loop of _unwrap_slash_groups: the first option of type 1 or 2 is
\* taken, its name is added to the name and its options are gone into;
\* without one (StopIteration) the name and the options by name are returned.
RECURSIVE UnwrapLoop(_, _)
UnwrapLoop(command_name, command_options) ==
    IF \A k \in DOMAIN command_options : command_options[k].type \notin {1, 2}
    THEN [command_name |-> command_name, command_options |-> Dict(command_options)]
    ELSE UnwrapLoop(
             command_name \o <<" ", command_options[
                 CHOOSE k \in DOMAIN command_options :
                     /\ command_options[k].type \in {1, 2}
                     /\ \A j \in 1..(k - 1) : command_options[j].type \notin {1, 2}].name>>,
             command_options[
                 CHOOSE k \in DOMAIN command_options :
                     /\ command_options[k].type \in {1, 2}
                     /\ \A j \in 1..(k - 1) : command_options[j].type \notin {1, 2}].options)

\* A faulty variant of _unwrap_slash_groups, for comparison: the options
\* of the data are returned as they are, subcommands among them.
UnwrapNothing(data) ==
    [command_name |-> data.name, command_options |-> Dict(data.options)]

\* _unwrap_slash_groups(data)
_unwrap_slash_groups(data) == UnwrapLoop(data.name, data.options)

\* name.split(): the words of a name.
RECURSIVE split(_)
split(view) ==
    IF skip_ws(view).index >= Len(view.buffer) THEN << >>
    ELSE <<get_word(skip_ws(view)).word>> \o split(get_word(skip_ws(view)).view)

\* The loop of GroupMixin.get_command over names[i:], from the group obj.
RECURSIVE GetSubcommand(_, _, _)
GetSubcommand(obj, names, i) ==
    IF i > Len(names) THEN obj
    ELSE IF \E p \in subcommands : p[1] = obj /\ <<p[2].name>> = names[i]
    THEN GetSubcommand((CHOOSE p \in subcommands : p[1] = obj /\ <<p[2].name>> = names[i])[2],
                       names, i + 1)
    ELSE NoCmd

\* GroupMixin.get_command(name): a name without a space is looked up in
\* all_commands; of a name of several words the first is looked up there,
\* and the others from it on if it is a group.
get_command(name) ==
    IF \A k \in 1..Len(name) : name[k] # " " THEN Get(all_commands, name)
    ELSE IF split(StringView(name)) = << >> THEN NoCmd
    ELSE IF ~ Get(all_commands, split(StringView(name))[1]).group
    THEN Get(all_commands, split(StringView(name))[1])
    ELSE GetSubcommand(Get(all_commands, split(StringView(name))[1]),
                       split(StringView(name)), 2)

\* command.clean_params of command g, in order: a is positional and has no
\* default; f is annotated with a FlagConverter of prefix "-" and delimiter
\* ":" whose flag r is required and flag s is not; b is positional and has
\* a default; o is keyword-only ("consume rest"), without a default and
\* annotated Optional.
Param(name, default, optional, positional) ==
    [name |-> name, default |-> default, optional |-> optional,
     positional |-> positional, converter |-> FALSE, prefix |-> << >>,
     delimiter |-> << >>, flags |-> << >>]
clean_params(command) ==
    IF command # Ping THEN << >>
    ELSE << Param("a", FALSE, FALSE, TRUE),
            [Param("f", FALSE, FALSE, TRUE) EXCEPT
                 !.converter = TRUE, !.prefix = <<"-">>, !.delimiter = <<":">>,
                 !.flags = << [name |-> "r", required |-> TRUE],
                              [name |-> "s", required |-> FALSE] >>],
            Param("b", TRUE, FALSE, TRUE),
            Param("o", FALSE, TRUE, FALSE) >>

\* view.supported_quotes, in order: the opening and the closing character
\* of a pair ("<" and ">" stand for a pair of two different characters).
supported_quotes == << <<"\"", "\"">>, <<"<", ">">> >>

\* A faulty variant of _quote_string_safe, for comparison: only the
\* opening character of a pair is looked for in the string.
RECURSIVE QuoteStringOpenOnly(_, _)
QuoteStringOpenOnly(string, i) ==
    IF i > Len(supported_quotes)
    THEN [exc |-> "UnexpectedQuoteError", value |-> string]
    ELSE IF \A k \in 1..Len(string) : string[k] # supported_quotes[i][1]
    THEN [exc |-> "none",
          value |-> << supported_quotes[i][1] >> \o string \o << supported_quotes[i][2] >>]
    ELSE QuoteStringOpenOnly(string, i + 1)

\* _quote_string_safe from pair i on: the first pair of which neither
\* character is in the string encloses it.
RECURSIVE _quote_string_safe(_, _)
_quote_string_safe(string, i) ==
    IF i > Len(supported_quotes)
    THEN [exc |-> "UnexpectedQuoteError", value |-> string]
    ELSE IF \A k \in 1..Len(string) :
                string[k] # supported_quotes[i][1] /\ string[k] # supported_quotes[i][2]
    THEN [exc |-> "none",
          value |-> << supported_quotes[i][1] >> \o string \o << supported_quotes[i][2] >>]
    ELSE _quote_string_safe(string, i + 1)

\* The locals of process_slash_commands in its loop.  content:
\* message.content; added: what was added to it, with the parameter or flag
\* it was added for; exc, arg: the error raised, and the name of the
\* parameter or flag it was made with.
Locals(content) ==
    [exc |-> "none", arg |-> "", content |-> content, added |-> << >>,
     ignore_params |-> << >>]
Raise(m, exc, arg) == [m EXCEPT !.exc = exc, !.arg = arg]
Add(m, name, text) ==
    [m EXCEPT !.content = @ \o text, !.added = Append(@, [name |-> name, text |-> text])]

\* A faulty variant of the loop over the flags, for comparison: the flags
\* are written without the prefix of the converter.
RECURSIVE AddFlagsBare(_, _, _, _)
AddFlagsBare(param, j, command_options, m) ==
    IF j > Len(param.flags) THEN m
    ELSE IF param.flags[j].name \notin DOMAIN command_options
    THEN IF param.flags[j].required
         THEN Raise(m, "MissingRequiredFlag", param.flags[j].name)
         ELSE AddFlagsBare(param, j + 1, command_options, m)
    ELSE AddFlagsBare(param, j + 1, command_options,
                      Add(m, param.flags[j].name,
                          <<" ", param.flags[j].name>> \o param.delimiter
                              \o command_options[param.flags[j].name].value))

\* The loop over the flags of a FlagConverter parameter, from flag j on: a
\* flag given is added to the content, a required flag not given raises.
RECURSIVE AddFlags(_, _, _, _)
AddFlags(param, j, command_options, m) ==
    IF j > Len(param.flags) THEN m
    ELSE IF param.flags[j].name \notin DOMAIN command_options
    THEN IF param.flags[j].required
         THEN Raise(m, "MissingRequiredFlag", param.flags[j].name)
         ELSE AddFlags(param, j + 1, command_options, m)
    ELSE AddFlags(param, j + 1, command_options,
                  Add(m, param.flags[j].name,
                      <<" ">> \o param.prefix \o <<param.flags[j].name>> \o param.delimiter
                          \o command_options[param.flags[j].name].value))

\* A faulty variant of AddParam, for comparison: a parameter not given is
\* ignored, with a default or without.
AddParamOptional(param, command_options, m) ==
    IF param.name \notin DOMAIN command_options
    THEN [m EXCEPT !.ignore_params = Append(@, param.name)]
    ELSE IF command_options[param.name].type = 3 /\ param.positional
    THEN IF _quote_string_safe(command_options[param.name].value, 1).exc # "none"
         THEN Raise(m, "UnexpectedQuoteError", command_options[param.name].value)
         ELSE Add(m, param.name,
                  <<" ">> \o _quote_string_safe(command_options[param.name].value, 1).value)
    ELSE Add(m, param.name, <<" ">> \o command_options[param.name].value)

\* One parameter that is not a FlagConverter: not given, it raises or is
\* ignored; a string given for a positional parameter is quoted; any other
\* value is added as it is.
AddParam(param, command_options, m) ==
    IF param.name \notin DOMAIN command_options
    THEN IF ~ param.default /\ ~ param.optional
         THEN Raise(m, "MissingRequiredArgument", param.name)
         ELSE [m EXCEPT !.ignore_params = Append(@, param.name)]
    ELSE IF command_options[param.name].type = 3 /\ param.positional
    THEN IF _quote_string_safe(command_options[param.name].value, 1).exc # "none"
         THEN Raise(m, "UnexpectedQuoteError", command_options[param.name].value)
         ELSE Add(m, param.name,
                  <<" ">> \o _quote_string_safe(command_options[param.name].value, 1).value)
    ELSE Add(m, param.name, <<" ">> \o command_options[param.name].value)

\* A faulty variant of the loop over command.clean_params, for comparison:
\* the parameters are taken from the last to the first.
RECURSIVE AddParamsBackwards(_, _, _, _)
AddParamsBackwards(params, i, command_options, m) ==
    IF i > Len(params) \/ m.exc # "none" THEN m
    ELSE IF params[Len(params) + 1 - i].converter
    THEN AddParamsBackwards(params, i + 1, command_options,
                            AddFlags(params[Len(params) + 1 - i], 1, command_options, m))
    ELSE AddParamsBackwards(params, i + 1, command_options,
                            AddParam(params[Len(params) + 1 - i], command_options, m))

\* The loop over command.clean_params, from parameter i on.
RECURSIVE AddParams(_, _, _, _)
AddParams(params, i, command_options, m) ==
    IF i > Len(params) \/ m.exc # "none" THEN m
    ELSE IF params[i].converter
    THEN AddParams(params, i + 1, command_options, AddFlags(params[i], 1, command_options, m))
    ELSE AddParams(params, i + 1, command_options, AddParam(params[i], command_options, m))

\* The call ends before invoke is reached: nothing is published.
EndedEarly(fn, c, raised) ==
    [events |-> << >>, context |-> c,
     task |-> Ended([NoTask EXCEPT !.fn = fn], "None", raised)]

\* The end of process_commands and process_slash_commands: get_context has
\* returned c or raised, and invoke(ctx) is awaited.
ProcessContext(fn, c) ==
    IF c.exc # "none" THEN EndedEarly(fn, c, c.exc)
    ELSE [events |-> InvokeStart(Ctx(c.command, c.invoked_with)).events,
          context |-> c,
          task |-> InvokeStart(Ctx(c.command, c.invoked_with)).task]

\* A faulty variant of process_commands, for comparison: the messages of
\* bots are processed too.
ProcessCommandsOfBots(msg) ==
    ProcessContext("process_commands", get_context(msg))

\* process_commands(msg)
process_commands(msg) ==
    IF msg.author.bot THEN EndedEarly("process_commands", NoContext, "none")
    ELSE ProcessContext("process_commands", get_context(msg))

\* What a call of process_slash_commands leaves: its locals (s) and, with
\* the context, the log and the invoke task of e.
Processed(s, e) ==
    [slash |-> s, events |-> e.events, context |-> e.context, task |-> e.task]

\* ctx = await self.get_context(message), with ctx._ignored_params and
\* ctx.interaction set if it returns.
SlashContext(s, c) ==
    IF c.exc # "none" THEN c
    ELSE [c EXCEPT !._ignored_params = s.ignore_params, !.interaction = s.interaction]

\* process_slash_commands, where the content of the message has been put
\* together or that has raised (m).
ProcessSynthesized(s, m) ==
    IF m.exc # "none"
    THEN Processed([s EXCEPT !.exc = m.exc, !.arg = m.arg, !.content = m.content,
                             !.added = m.added, !.ignore_params = m.ignore_params],
                   EndedEarly("process_slash_commands", NoContext, m.exc))
    ELSE Processed([s EXCEPT !.content = m.content, !.added = m.added,
                             !.ignore_params = m.ignore_params],
                   ProcessContext("process_slash_commands",
                                  SlashContext([s EXCEPT !.ignore_params = m.ignore_params],
                                               get_context(Message("2", m.content, TRUE)))))

\* process_slash_commands, where the data has been unwrapped (s).
ProcessUnwrapped(s) ==
    IF get_command(s.command_name) = NoCmd
    THEN Processed([s EXCEPT !.exc = "CommandNotFound"],
                   EndedEarly("process_slash_commands", NoContext, "CommandNotFound"))
    ELSE IF s.interaction.channel = "none"
    THEN Processed(s, EndedEarly("process_slash_commands", NoContext, "none"))
    ELSE ProcessSynthesized(s, AddParams(clean_params(get_command(s.command_name)), 1,
                                         s.command_options,
                                         Locals(<<"/">> \o s.command_name)))

\* process_slash_commands(interaction)
process_slash_commands(interaction) ==
    IF interaction.type # "application_command"
    THEN Processed([NoSlash EXCEPT !.pc = "done", !.interaction = interaction],
                   EndedEarly("process_slash_commands", NoContext, "none"))
    ELSE ProcessUnwrapped(
             [NoSlash EXCEPT
                  !.pc = "done", !.interaction = interaction,
                  !.command_name = _unwrap_slash_groups(interaction.data).command_name,
                  !.command_options = _unwrap_slash_groups(interaction.data).command_options])

\* on_message: process_commands(message), to the first await of invoke.
ProcessCommands ==
    /\ Idle
    /\ \E msg \in ProcessMessages :
           \E r \in {process_commands(msg)} :
               /\ message' = msg
               /\ context' = r.context /\ events' = r.events /\ task' = r.task
    /\ slash' = NoSlash
    /\ UNCHANGED <<extVars, appVars, quoted, last, _checks, _check_once, command_prefix,
                   strip_after_prefix>>

\* process_slash_commands(interaction), to the first await of invoke.
Interact(interaction) ==
    /\ \E r \in {process_slash_commands(interaction)} :
           /\ message' = IF r.context = NoContext THEN NoMessage
                         ELSE Message("2", r.context.view.buffer, TRUE)
           /\ slash' = r.slash
           /\ context' = r.context /\ events' = r.events /\ task' = r.task
    /\ UNCHANGED <<extVars, appVars, quoted, last, _checks, _check_once, command_prefix,
                   strip_after_prefix>>

\* on_interaction, with the interactions where the checks run.
ProcessSlashCommands ==
    /\ Idle
    /\ \E interaction \in ProcessInteractions : Interact(interaction)

\* The bot as constructed with command_prefix "!", and command g added.
InitProcess ==
    /\ extensions = EmptyBot.ext
    /\ sys_modules = EmptyBot.mods
    /\ cogs = EmptyBot.cogs
    /\ all_commands = [EmptyBot.cmds EXCEPT !["g"] = Ping]
    /\ subcommands = EmptyBot.kids
    /\ extra_events = EmptyBot.evs
    /\ last = [op |-> "init", name |-> NoName, package |-> NoName,
               exc |-> "none", cause |-> "none", calls |-> << >>]
    /\ _checks = << >>
    /\ _check_once = << >>
    /\ task = NoTask
    /\ events = << >>
    /\ command_prefix = Plain(Str(<<"!">>))
    /\ strip_after_prefix = FALSE
    /\ message = NoMessage
    /\ context = NoContext
    /\ slash = NoSlash
    /\ quoted = NoQuoted
    /\ AppIdle

NextProcess ==
    AddCheck \/ ProcessCommands \/ ProcessSlashCommands \/ EvalCheck \/ RunCommand
        \/ DispatchError

SpecProcess == InitProcess /\ [][NextProcess]_vars

----------------------------------------------------------------------------
(* The interactions of process_slash_commands *)

\* on_interaction with the interaction the state has.
OnInteraction ==
    /\ slash.pc = "idle"
    /\ Interact(slash.interaction)

\* The bot of InitProcess, given any of the interactions.
InitSlash ==
    /\ extensions = EmptyBot.ext
    /\ sys_modules = EmptyBot.mods
    /\ cogs = EmptyBot.cogs
    /\ all_commands = [EmptyBot.cmds EXCEPT !["g"] = Ping]
    /\ subcommands = EmptyBot.kids
    /\ extra_events = EmptyBot.evs
    /\ last = [op |-> "init", name |-> NoName, package |-> NoName,
               exc |-> "none", cause |-> "none", calls |-> << >>]
    /\ _checks = << >>
    /\ _check_once = << >>
    /\ task = NoTask
    /\ events = << >>
    /\ command_prefix = Plain(Str(<<"!">>))
    /\ strip_after_prefix = FALSE
    /\ message = NoMessage
    /\ context = NoContext
    /\ \E interaction \in Interactions : slash = [NoSlash EXCEPT !.interaction = interaction]
    /\ quoted = NoQuoted
    /\ AppIdle

NextSlash == OnInteraction \/ EvalCheck \/ RunCommand \/ DispatchError

SpecSlash == InitSlash /\ [][NextSlash]_vars

----------------------------------------------------------------------------
(* Command errors and the event handlers *)

\* C15: no call of process_commands or process_slash_commands, with the
\* invoke in it, ends by raising a command error to on_message or
\* on_interaction: every command error has gone to the command's
\* dispatch_error or was published as "command_error".
C15_CommandErrorsAreDispatched ==
    task.pc = "done" => task.raised \notin CommandErrors

----------------------------------------------------------------------------
(* process_commands: messages of bots *)

\* C25: process_commands of a message whose author is a bot returns
\* without get_context and invoke: no context is built and no prefix
\* resolved, no check and no command is run, nothing is published.
C25_BotMessagesIgnored ==
    message.author.bot
        => /\ task = NoTask
              \/ task = Ended([NoTask EXCEPT !.fn = "process_commands"], "None", "none")
           /\ events = << >>
           /\ context = NoContext

\* process_commands has returned for the message "!g" of another bot,
\* with a call-once check registered.
C25_OtherBotCommandLine ==
    /\ message = Message("3", <<"!", "g">>, FALSE)
    /\ task.fn = "process_commands" /\ task.pc = "done"
    /\ Len(_check_once) = 1

----------------------------------------------------------------------------
(* _unwrap_slash_groups: the data of nested subcommands *)

\* The options nested in subcommands and subcommand groups, at most depth
\* deep.  A level has options with a value, two of one name among them, or
\* a subcommand or group, alone, after an option with a value, or before a
\* second subcommand.
MaxDepth == 2
LeafLists ==
    {<< >>}
        \cup {<<o>> : o \in {Option("a", 3, <<"v">>), Option("a", 4, <<"7">>)}}
        \cup {<<o, p>> : o, p \in {Option("a", 3, <<"v">>), Option("a", 4, <<"7">>)}}
RECURSIVE Nested(_)
Nested(depth) ==
    IF depth = 0 THEN LeafLists
    ELSE LeafLists \cup
         UNION {{<<sub>>, <<Option("r", 3, <<"w">>), sub>>, <<sub, SubOption("t", 1, << >>)>>} :
                    sub \in {SubOption(n, t, o) : n \in {"s", "t"}, t \in {1, 2},
                                                  o \in Nested(depth - 1)}}
Payloads == {[name |-> <<"g">>, options |-> o] : o \in Nested(MaxDepth)}

\* command_name, command_options = _unwrap_slash_groups(interaction.data)
UnwrapSlashGroups ==
    /\ slash.pc = "idle"
    /\ slash' = [slash EXCEPT
                     !.pc = "unwrapped",
                     !.command_name = _unwrap_slash_groups(slash.interaction.data).command_name,
                     !.command_options =
                         _unwrap_slash_groups(slash.interaction.data).command_options]
    /\ UNCHANGED <<extVars, appVars, invVars, ctxVars, quoted, last>>

\* The bot of InitProcess, given an interaction with any of the payloads.
InitUnwrap ==
    /\ extensions = EmptyBot.ext
    /\ sys_modules = EmptyBot.mods
    /\ cogs = EmptyBot.cogs
    /\ all_commands = [EmptyBot.cmds EXCEPT !["g"] = Ping]
    /\ subcommands = EmptyBot.kids
    /\ extra_events = EmptyBot.evs
    /\ last = [op |-> "init", name |-> NoName, package |-> NoName,
               exc |-> "none", cause |-> "none", calls |-> << >>]
    /\ _checks = << >>
    /\ _check_once = << >>
    /\ task = NoTask
    /\ events = << >>
    /\ command_prefix = Plain(Str(<<"!">>))
    /\ strip_after_prefix = FALSE
    /\ message = NoMessage
    /\ context = NoContext
    /\ \E data \in Payloads :
           slash = [NoSlash EXCEPT !.interaction =
                        [type |-> "application_command", data |-> data, channel |-> "channel"]]
    /\ quoted = NoQuoted
    /\ AppIdle

NextUnwrap == UnwrapSlashGroups

SpecUnwrap == InitUnwrap /\ [][NextUnwrap]_vars

\* The subcommand entries of a level, the one chosen (the first), the
\* options of level n of the payload (level 0 is data["options"]), and the
\* first level without a subcommand entry.
Subcommands(options) == {k \in DOMAIN options : options[k].type \in {1, 2}}
ChosenEntry(options) ==
    options[CHOOSE k \in Subcommands(options) : \A j \in Subcommands(options) : k <= j]
RECURSIVE LevelOptions(_)
LevelOptions(n) ==
    IF n = 0 THEN slash.interaction.data.options
    ELSE ChosenEntry(LevelOptions(n - 1)).options
LeafLevel ==
    CHOOSE n \in 0..MaxDepth :
        /\ \A m \in 0..(n - 1) : Subcommands(LevelOptions(m)) # {}
        /\ Subcommands(LevelOptions(n)) = {}

\* C26: _unwrap_slash_groups returns for every payload (a) the name of the
\* data followed, for each level down to the first without a subcommand
\* entry, by a space and the name of the entry chosen at that level, and
\* (b) the options of that first level without a subcommand entry, by
\* name, each an option of that level with that name and none of them a
\* subcommand or a group.
C26_UnwrappedNameAndOptions ==
    /\ slash.pc = "idle" => ENABLED UnwrapSlashGroups
    /\ slash.pc = "unwrapped"
           => /\ Len(slash.command_name) = Len(slash.interaction.data.name) + 2 * LeafLevel
              /\ SubSeq(slash.command_name, 1, Len(slash.interaction.data.name))
                     = slash.interaction.data.name
              /\ \A n \in 1..LeafLevel :
                     /\ slash.command_name[Len(slash.interaction.data.name) + 2 * n - 1] = " "
                     /\ slash.command_name[Len(slash.interaction.data.name) + 2 * n]
                            = ChosenEntry(LevelOptions(n - 1)).name
              /\ DOMAIN slash.command_options
                     = {LevelOptions(LeafLevel)[k].name : k \in DOMAIN LevelOptions(LeafLevel)}
              /\ \A n \in DOMAIN slash.command_options :
                     /\ slash.command_options[n].name = n
                     /\ slash.command_options[n].type \notin {1, 2}
                     /\ \E k \in DOMAIN LevelOptions(LeafLevel) :
                            slash.command_options[n] = LevelOptions(LeafLevel)[k]

\* A payload of group s with subcommand t in it, after an option r of the
\* command itself: the name is "g s t", and the options are those of t.
C26_GroupAndSubcommand ==
    /\ slash.pc = "unwrapped"
    /\ slash.interaction.data.options
           = << Option("r", 3, <<"w">>),
                SubOption("s", 2, << SubOption("t", 1, << Option("a", 3, <<"v">>) >>) >>) >>
    /\ slash.command_name = <<"g", " ", "s", " ", "t">>
    /\ DOMAIN slash.command_options = {"a"}

----------------------------------------------------------------------------
(* process_slash_commands: the parameters of the command *)

\* The call has come to the loop over the parameters: the interaction is
\* an application command, its command is found and its channel is usable.
Synthesizing ==
    /\ slash.pc = "done"
    /\ slash.interaction.type = "application_command"
    /\ get_command(slash.command_name) # NoCmd
    /\ slash.interaction.channel # "none"

\* The parameters of the command, whether an option of a name was supplied,
\* and whether a string is unquotable.
Declared == clean_params(get_command(slash.command_name))
Supplied(name) == name \in DOMAIN slash.command_options
Unquotable(string) ==
    \A q \in DOMAIN supported_quotes :
        \E k \in DOMAIN string : string[k] \in {supported_quotes[q][1], supported_quotes[q][2]}

\* Flag j of parameter i, and parameter i, end the loop by raising.
FlagStops(i, j) == Declared[i].flags[j].required /\ ~ Supplied(Declared[i].flags[j].name)
Stops(i) ==
    IF Declared[i].converter THEN \E j \in DOMAIN Declared[i].flags : FlagStops(i, j)
    ELSE IF ~ Supplied(Declared[i].name)
    THEN ~ Declared[i].default /\ ~ Declared[i].optional
    ELSE /\ slash.command_options[Declared[i].name].type = 3
         /\ Declared[i].positional
         /\ Unquotable(slash.command_options[Declared[i].name].value)

\* The loop comes to parameter i, and to flag j of it: nothing before has
\* raised.
Reached(i) == \A k \in 1..(i - 1) : ~ Stops(k)
FlagReached(i, j) == Reached(i) /\ \A k \in 1..(j - 1) : ~ FlagStops(i, k)

\* What was added to the content for a name, and the call ended by raising
\* exc made with arg, before a context was built.
AddedFor(name) == {k \in DOMAIN slash.added : slash.added[k].name = name}
RaisedBeforeContext(exc, arg) ==
    /\ slash.exc = exc /\ slash.arg = arg
    /\ context = NoContext
    /\ task = Ended([NoTask EXCEPT !.fn = "process_slash_commands"], "None", exc)
    /\ events = << >>

----------------------------------------------------------------------------
(* _quote_string_safe and the quoted words of the view *)

\* The strings quoted: of at most MaxQuoted characters, which are the
\* quote characters, a backslash, a space and a letter.
MaxQuoted == 3
QuoteChars == {"\"", "<", ">", "\\", " ", "v"}
QuoteStrings == UNION {[1..n -> QuoteChars] : n \in 0..MaxQuoted}

\* The quoted text of a word from position i on, result read so far: a
\* backslash before the closing quote or a backslash gives that character;
\* the closing quote ends the word; the buffer may end before it.
RECURSIVE QuotedText(_, _, _, _)
QuotedText(buffer, i, close_quote, result) ==
    IF i > Len(buffer) THEN [closed |-> FALSE, word |-> result, index |-> Len(buffer)]
    ELSE IF buffer[i] = "\\" /\ i < Len(buffer) /\ buffer[i + 1] \in {close_quote, "\\"}
    THEN QuotedText(buffer, i + 2, close_quote, Append(result, buffer[i + 1]))
    ELSE IF buffer[i] = close_quote THEN [closed |-> TRUE, word |-> result, index |-> i]
    ELSE QuotedText(buffer, i + 1, close_quote, Append(result, buffer[i]))

\* A word without quotes from position i on: it ends before whitespace; a
\* backslash before a whitespace character gives that character.
RECURSIVE PlainText(_, _, _)
PlainText(buffer, i, result) ==
    IF i > Len(buffer) THEN [closed |-> TRUE, word |-> result, index |-> Len(buffer)]
    ELSE IF buffer[i] = "\\" /\ i < Len(buffer) /\ isspace(buffer[i + 1])
    THEN PlainText(buffer, i + 2, Append(result, buffer[i + 1]))
    ELSE IF isspace(buffer[i]) THEN [closed |-> TRUE, word |-> result, index |-> i - 1]
    ELSE PlainText(buffer, i + 1, Append(result, buffer[i]))

\* StringView.get_quoted_word: a word that begins with the opening
\* character of a supported pair goes to the closing character of the
\* pair; without the closing character the opening one is read as any
\* other character of a word.
get_quoted_word(view) ==
    IF view.index >= Len(view.buffer) THEN [word |-> None, view |-> view]
    ELSE IF \E q \in DOMAIN supported_quotes :
                /\ supported_quotes[q][1] = view.buffer[view.index + 1]
                /\ QuotedText(view.buffer, view.index + 2, supported_quotes[q][2], << >>).closed
    THEN [word |-> QuotedText(view.buffer, view.index + 2,
                              (CHOOSE p \in {supported_quotes[q] : q \in DOMAIN supported_quotes} :
                                   p[1] = view.buffer[view.index + 1])[2], << >>).word,
          view |-> [view EXCEPT
                        !.previous = view.index,
                        !.index = QuotedText(view.buffer, view.index + 2,
                                             (CHOOSE p \in {supported_quotes[q] :
                                                                q \in DOMAIN supported_quotes} :
                                                  p[1] = view.buffer[view.index + 1])[2],
                                             << >>).index]]
    ELSE [word |-> PlainText(view.buffer, view.index + 1, << >>).word,
          view |-> [view EXCEPT !.previous = view.index,
                                !.index = PlainText(view.buffer, view.index + 1, << >>).index]]

\* _quote_string_safe(option["value"])
QuoteStringSafe ==
    /\ quoted.pc = "idle"
    /\ quoted' = [quoted EXCEPT !.pc = "quoted",
                                !.value = _quote_string_safe(quoted.string, 1).value,
                                !.exc = _quote_string_safe(quoted.string, 1).exc]
    /\ UNCHANGED <<extVars, appVars, invVars, ctxVars, slash, last>>

\* The view of the command reads its argument: the quoted string, with
\* what follows it in the content.
GetQuotedWord ==
    /\ quoted.pc = "quoted" /\ quoted.exc = "none"
    /\ quoted' = [quoted EXCEPT
                      !.pc = "read",
                      !.word = get_quoted_word(StringView(quoted.value \o quoted.rest)).word,
                      !.index =
                          get_quoted_word(StringView(quoted.value \o quoted.rest)).view.index]
    /\ UNCHANGED <<extVars, appVars, invVars, ctxVars, slash, last>>

\* The bot of InitProcess, and any of the strings to be quoted, the last
\* fragment of the content or before another.
InitQuote ==
    /\ extensions = EmptyBot.ext
    /\ sys_modules = EmptyBot.mods
    /\ cogs = EmptyBot.cogs
    /\ all_commands = [EmptyBot.cmds EXCEPT !["g"] = Ping]
    /\ subcommands = EmptyBot.kids
    /\ extra_events = EmptyBot.evs
    /\ last = [op |-> "init", name |-> NoName, package |-> NoName,
               exc |-> "none", cause |-> "none", calls |-> << >>]
    /\ _checks = << >>
    /\ _check_once = << >>
    /\ task = NoTask
    /\ events = << >>
    /\ command_prefix = Plain(Str(<<"!">>))
    /\ strip_after_prefix = FALSE
    /\ message = NoMessage
    /\ context = NoContext
    /\ slash = NoSlash
    /\ \E string \in QuoteStrings, rest \in {<< >>, <<" ", "w">>} :
           quoted = [NoQuoted EXCEPT !.string = string, !.rest = rest]
    /\ AppIdle

NextQuote == QuoteStringSafe \/ GetQuotedWord

SpecQuote == InitQuote /\ [][NextQuote]_vars

\* The pairs of supported_quotes of which neither character is in the
\* string.
Absent(string) ==
    {q \in DOMAIN supported_quotes :
         \A k \in DOMAIN string :
             string[k] # supported_quotes[q][1] /\ string[k] # supported_quotes[q][2]}

\* C29: _quote_string_safe returns the string, unchanged, between the
\* opening and the closing character of the first pair of supported_quotes
\* of which neither character is in the string, and raises
\* UnexpectedQuoteError exactly when there is no such pair.
C29_FirstAbsentPair ==
    quoted.pc # "idle"
        => /\ quoted.exc = "UnexpectedQuoteError" <=> Absent(quoted.string) = {}
           /\ quoted.exc \in {"none", "UnexpectedQuoteError"}
           /\ quoted.exc = "none"
                  => \E q \in Absent(quoted.string) :
                         /\ \A p \in Absent(quoted.string) : q <= p
                         /\ quoted.value = <<supported_quotes[q][1]>> \o quoted.string
                                               \o <<supported_quotes[q][2]>>

\* The string v" has a double quote in it and is put between the
\* characters of the second pair.
C29_SecondPair ==
    /\ quoted.pc = "quoted"
    /\ quoted.string = <<"v", "\"">>
    /\ quoted.value = <<"<", "v", "\"", ">">>

\* C30: the token _quote_string_safe returns for a string is read back by
\* the view as that string, and the cursor of the view is then at the end
\* of the token.
C30_QuotedTokenReadsBack ==
    quoted.pc = "read"
        => /\ quoted.word = quoted.string
           /\ quoted.index = Len(quoted.value)

----------------------------------------------------------------------------
(* process_slash_commands: the content of the message *)

\* The names an option is looked up by, in the order of the declaration
\* (from parameter i on): the name of a parameter, the names of the flags
\* of a flag group.
RECURSIVE LookedUpFrom(_)
LookedUpFrom(i) ==
    IF i > Len(Declared) THEN << >>
    ELSE (IF Declared[i].converter
          THEN [j \in DOMAIN Declared[i].flags |-> Declared[i].flags[j].name]
          ELSE <<Declared[i].name>>) \o LookedUpFrom(i + 1)

\* The fragment of a name with an option: of a flag, the prefix, the name,
\* the delimiter and the value; of a string for a positional parameter, the
\* value between the characters of the first pair absent from it; else the
\* value.
FragmentOf(name) ==
    IF \E i \in DOMAIN Declared : Declared[i].name = name /\ ~ Declared[i].converter
    THEN IF /\ slash.command_options[name].type = 3
            /\ \E i \in DOMAIN Declared : Declared[i].name = name /\ Declared[i].positional
         THEN <<supported_quotes[CHOOSE q \in Absent(slash.command_options[name].value) :
                                     \A p \in Absent(slash.command_options[name].value) :
                                         q <= p][1]>>
                  \o slash.command_options[name].value
                  \o <<supported_quotes[CHOOSE q \in Absent(slash.command_options[name].value) :
                                            \A p \in Absent(slash.command_options[name].value) :
                                                q <= p][2]>>
         ELSE slash.command_options[name].value
    ELSE (CHOOSE g \in {Declared[i] : i \in DOMAIN Declared} :
              g.converter /\ \E j \in DOMAIN g.flags : g.flags[j].name = name).prefix
             \o <<name>>
             \o (CHOOSE g \in {Declared[i] : i \in DOMAIN Declared} :
                     g.converter /\ \E j \in DOMAIN g.flags : g.flags[j].name = name).delimiter
             \o slash.command_options[name].value

\* The fragments of names[k:], each after one space.
RECURSIVE Fragments(_, _)
Fragments(names, k) ==
    IF k > Len(names) THEN << >>
    ELSE <<" ">> \o FragmentOf(names[k]) \o Fragments(names, k + 1)

\* C31: where process_slash_commands comes through its loop, the content
\* of the message is "/", the name of the command and, each after one
\* space, the fragments of the parameters and flags that have an option, in
\* the order of the declaration whatever the order of the options in the
\* interaction; the context is what get_context returns for the message
\* with that content, and it has the interaction and the ignored
\* parameters in every state of the invoke that follows.
C31_ContentInDeclarationOrder ==
    (Synthesizing /\ slash.exc = "none")
        => /\ slash.content = <<"/">> \o slash.command_name
                                  \o Fragments(SelectSeq(LookedUpFrom(1), Supplied), 1)
           /\ message = Message("2", slash.content, TRUE)
           /\ context.pc = "done" /\ context.exc = "none"
           /\ [context EXCEPT !._ignored_params = << >>, !.interaction = NoInteraction]
                  = get_context(message)
           /\ context.interaction = slash.interaction
           /\ context._ignored_params = slash.ignore_params
           /\ task.fn = "invoke" /\ task.ctx = Ctx(context.command, context.invoked_with)

\* The options come in the order o, b, s, r, a, and the content has their
\* fragments in the order a, r, s, b, o.
C31_OptionsInOppositeOrder ==
    /\ Synthesizing
    /\ Len(slash.interaction.data.options) = 5
    /\ slash.interaction.data.options[1].name = "o"
    /\ slash.interaction.data.options[5] = Option("a", 3, <<"v">>)
    /\ slash.content = <<"/", "g", " ", "\"", "v", "\"", " ", "-", "r", ":", "w",
                         " ", "-", "s", ":", "w", " ", "\"", "w", "\"", " ", "w">>
    /\ context.interaction = slash.interaction
    /\ task.pc = "run"

----------------------------------------------------------------------------
(* remove_check *)

\* C33: for every function and either value of call_once, remove_check
\* raises nothing and leaves the list that call_once does not select as it
\* is; without the function in the selected list it leaves both lists as
\* they are; and a second remove_check with the same arguments changes
\* nothing more (idempotence).
C33_RemoveCheckIdempotent ==
    \A func \in CheckNames, call_once \in BOOLEAN :
        /\ remove_check(_checks, _check_once, func, call_once).exc = "none"
        /\ call_once => remove_check(_checks, _check_once, func, call_once)._checks = _checks
        /\ ~ call_once
               => remove_check(_checks, _check_once, func, call_once)._check_once = _check_once
        /\ (\A k \in DOMAIN (IF call_once THEN _check_once ELSE _checks) :
                (IF call_once THEN _check_once ELSE _checks)[k] # func)
               => /\ remove_check(_checks, _check_once, func, call_once)._checks = _checks
                  /\ remove_check(_checks, _check_once, func, call_once)._check_once
                         = _check_once
        /\ remove_check(remove_check(_checks, _check_once, func, call_once)._checks,
                        remove_check(_checks, _check_once, func, call_once)._check_once,
                        func, call_once)
               = remove_check(_checks, _check_once, func, call_once)

----------------------------------------------------------------------------
(* invoke: exceptions that are not command errors *)

\* The calls of a check or of the command that raised something that is
\* not a command error.
RaisedOther ==
    {j \in At("check") \cup At("invoke") :
         events[j].raised \notin CommandErrors \cup {"none"}}

\* C37: where a call-once check or the command raised an exception that is
\* not a command error in an invoke, the invoke has ended by raising that
\* exception right after it: dispatch_error was not awaited and
\* "command_completion" was not published, and "command" had been
\* published before.
C37_OtherExceptionsPropagate ==
    (InvokingCommand /\ RaisedOther # {})
        => /\ RaisedOther = {Len(events)}
           /\ task.pc = "done" /\ task.raised = events[Len(events)].raised
           /\ At("dispatch_error") = {}
           /\ Published("command_completion") = {}
           /\ Published("command") = {1}

\* The call-once check passed and the command raised Exception.
C37_CommandRaisedException ==
    /\ InvokingCommand
    /\ Len(events) = 3
    /\ events[2] = Event("check", "yes", "True", "none")
    /\ events[3] = Event("invoke", "g", "None", "Exception")
    /\ task.raised = "Exception"

----------------------------------------------------------------------------
(* get_context and invoke: a content without a prefix *)

\* get_prefix has returned a string or a list of strings, and the content
\* of the message, which is of another user, starts with none of them.
NoPrefixMatches ==
    /\ Built /\ context.resolved.type \in {"str", "list"}
    /\ Hits = {}

\* C36: for a message of another user whose content starts with none of
\* the resolved prefixes, the context get_context returns has no prefix,
\* no token and no command and its view is at 0, and the invoke of that
\* context ends at once with nothing published; and every context
\* returned with a command has a prefix, which the content starts with.
C36_NoPrefixNoInvocation ==
    /\ NoPrefixMatches
           => /\ context.prefix = None /\ context.invoked_with = None
              /\ context.command = NoCmd
              /\ context.view.index = 0 /\ context.view.previous = 0
              /\ InvokeStart(Ctx(context.command, context.invoked_with)).events = << >>
              /\ task.fn = "invoke"
                     => task.pc = "done" /\ task.raised = "none" /\ events = << >>
    /\ (context.pc = "done" /\ context.exc = "none" /\ context.command # NoCmd)
           => /\ context.prefix # None
              /\ StartsWith(message.content, context.prefix)

\* The content "g" is the name of a command and the prefix is "!": the
\* context has been invoked and nothing was published.
C36_CommandNameWithoutPrefix ==
    /\ NoPrefixMatches
    /\ message.content = <<"g">> /\ context.resolved = Str(<<"!">>)
    /\ task.fn = "invoke" /\ task.pc = "done" /\ events = << >>

----------------------------------------------------------------------------
(* unload_extension: what it leaves alone *)

\* Module m is neither extension `name` nor a dotted submodule of it.
Foreign(name, m) == ~ (m = name \/ (Len(m) > Len(name) /\ m[Len(name) + 1] = "."
                                        /\ \A k \in 1..Len(name) : m[k] = name[k]))

\* The listeners of a list that are not of extension `name`, in order.
ForeignListeners(name, l) ==
    LET foreign(event) == Foreign(name, event.module) IN SelectSeq(l, foreign)

\* unload_extension with result r leaves the cogs, the top-level commands
\* and the listeners of other modules, and the entries of the other
\* extensions, as they are in the bot.
KeepsTopLevel(name, r) ==
    /\ \A x \in CogNames :
           (cogs[x] # NoCog /\ Foreign(name, cogs[x].module)) => r.b.cogs[x] = cogs[x]
    /\ \A n \in TopNames :
           (all_commands[n] # NoCmd /\ Foreign(name, all_commands[n].module))
               => r.b.cmds[n] = all_commands[n]
    /\ \A e \in Events :
           ForeignListeners(name, r.b.evs[e]) = ForeignListeners(name, extra_events[e])
    /\ \A m \in ModNames \ {name} : r.b.ext[m] = extensions[m]

\* C35: an unload_extension(P) that returns leaves registered every cog,
\* every command of the bot's command tree, at the top level or under a
\* group, and every listener whose module is neither P nor a dotted
\* submodule of P, and leaves the table entries of the other extensions
\* unchanged.
C35_UnloadRemovesOnlyOwn ==
    \A a \in CallArgs : \A td \in Tds(Loaded(a).ver) :
        \A r \in {unload_extension(Bot, a[1], a[2], td)} :
            (Loaded(a) # NoLib /\ r.exc = "none")
                => /\ KeepsTopLevel(Key(a), r)
                   /\ \A c \in Registered(Bot) :
                          Foreign(Key(a), c.module) => c \in Registered(r.b)

----------------------------------------------------------------------------
(* close: the bot with extensions and cogs *)

\* A cog the program itself adds, declared in its main module.
MainCog == [name |-> "C", module |-> <<"m">>, gen |-> 0]

\* bot.add_cog(MainCog)
AddCog ==
    \E r \in {add_cog(Bot, MainCog)} :
        Finish("add_cog", <<NoName, NoName>>, Result(r.b, r.err, "none", << >>))

\* What the teardowns of the loaded extensions may do.
CloseTds == {td \in [ModNames -> Outcomes] : \A m \in ModNames : td[m] \in Tds(extensions[m].ver)}

\* await bot.close()
Close ==
    \E order \in Orders({m \in ModNames : extensions[m] # NoLib}) :
        \E td \in CloseTds :
            \E r \in {close(Bot, order, td)} :
                Finish("close", <<NoName, NoName>>, Result(r.b, "none", "none", r.calls))

NextClose == LoadExtension \/ UnloadExtension \/ AddCog \/ Close

SpecClose == Init /\ [][NextClose]_vars

----------------------------------------------------------------------------
(* An invocation in flight and unload_extension *)

\* The bot after load_extension("p") of the file whose setup adds the
\* command g and the cog C with its command c.
LoadedBot ==
    Renumber(Collect(load_extension(EmptyBot, P, NoName, "v1", MaxK, "ok", {}).b))

\* A message of a user is being processed by a bot with extension p
\* loaded, a prefix or a prefix function, and call-once checks.
InitRace ==
    /\ extensions = LoadedBot.ext
    /\ sys_modules = LoadedBot.mods
    /\ cogs = LoadedBot.cogs
    /\ all_commands = LoadedBot.cmds
    /\ subcommands = LoadedBot.kids
    /\ extra_events = LoadedBot.evs
    /\ last = [op |-> "init", name |-> NoName, package |-> NoName,
               exc |-> "none", cause |-> "none", calls |-> << >>]
    /\ _checks = << >>
    /\ _check_once \in {<< >>, <<"yes">>, <<"yes", "one">>, <<"yes", "no">>}
    /\ task = NoTask
    /\ events = << >>
    /\ command_prefix \in {Plain(Str(<<"!">>)), Callable(Str(<<"!">>))}
    /\ strip_after_prefix = FALSE
    /\ message \in {Message("2", <<"!", "g">>, FALSE), Message("2", <<"!", "c">>, FALSE)}
    /\ context = NoContext
    /\ slash = NoSlash
    /\ quoted = NoQuoted
    /\ AppIdle

\* Where another task can run: no call is in progress, or the call in
\* progress is at an await that may suspend it, of the prefix function, of
\* a call-once check or of the error handlers.  The await of a get_prefix
\* without a function, of a can_run with no check left and of invoke after
\* get_context do not suspend.
Suspended ==
    \/ context.pc = "idle"
    \/ context.pc = "get_prefix" /\ command_prefix.callable
    \/ task.pc = "can_run" /\ task.i <= Len(_check_once)
    \/ task.pc \in {"dispatch_error", "done"}

\* unload_extension is called by another task.
UnloadMeanwhile == Suspended /\ UnloadExtension

NextRace ==
    \/ GetContext \/ GetPrefix \/ InvokeContext \/ EvalCheck \/ RunCommand \/ DispatchError
    \/ UnloadMeanwhile

SpecRace == InitRace /\ [][NextRace]_vars

\* C34: whenever an invocation awaits ctx.command.invoke(ctx), which runs
\* the command, the command is in the bot's command registry: a command
\* whose extension was unloaded while the invocation was suspended is not
\* run when the invocation resumes.
C34_NoRunAfterRemoval ==
    [][ (task.pc = "run" /\ task'.pc # "run")
            => all_commands[task.ctx.command.name] # NoCmd ]_vars

----------------------------------------------------------------------------
(* ui.Modal: the number of items *)

\* modal.add_item(item), of an item that is not in the modal or of an
\* object that is no Item.
AddItem ==
    /\ \E item \in {0} \cup {i \in Items : \A k \in 1..Len(modal.children) : modal.children[k] # i} :
           modal' = [add_item(modal, item) EXCEPT !.op = "add_item", !.item = item,
                                                  !.was = modal.children]
    /\ UNCHANGED <<extVars, invVars, ctxVars, slashVars, last, command_state, registration>>

\* modal.remove_item(item)
RemoveItem ==
    /\ \E item \in Items :
           modal' = [remove_item(modal, item) EXCEPT !.op = "remove_item", !.item = item,
                                                     !.was = modal.children]
    /\ UNCHANGED <<extVars, invVars, ctxVars, slashVars, last, command_state, registration>>

NextModal == AddItem \/ RemoveItem

SpecModal == Init /\ [][NextModal]_vars

\* C39: a modal never has more than 5 children, and an add_item of an
\* item on a modal that has 5 children raises ValueError and leaves the
\* children as they were.
C39_AtMostFiveItems ==
    /\ Len(modal.children) <= 5
    /\ (modal.op = "add_item" /\ modal.item \in Items /\ Len(modal.was) = 5)
           => modal.exc = "ValueError" /\ modal.children = modal.was

----------------------------------------------------------------------------
(* slash.CommandState *)

\* Classes registered at once, over all the keys.
MaxRegistered == 3

\* A request to the HTTP client, or a callback of a command: which, for
\* which guild (0: none), and the names of the commands in it.
Request(fn, guild, names) == [fn |-> fn, guild |-> guild, names |-> names]
NamesOf(commands) == [i \in 1..Len(commands) |-> commands[i].name]

\* self.pre_registration[x].append(command), the list being made first if
\* the key has none.
Register(pre, x, command) ==
    [keys |-> IF \E i \in 1..Len(pre.keys) : pre.keys[i] = x THEN pre.keys
              ELSE Append(pre.keys, x),
     lists |-> [pre.lists EXCEPT ![x] = Append(@, command)]]

\* The loop of add_command over command._guilds_, from its i-th id on.
RECURSIVE RegisterGuilds(_, _, _, _)
RegisterGuilds(pre, ids, i, command) ==
    IF i > Len(ids) THEN pre
    ELSE RegisterGuilds(Register(pre, ids[i], command), ids, i + 1, command)

\* CommandState.add_command(command): a class made without the guilds
\* keyword has no _guilds_ attribute.
CommandState_add_command(st, command) ==
    IF command.guilds.kind = "MISSING" THEN [st EXCEPT !.exc = "AttributeError"]
    ELSE IF command.guilds.kind = "None"
    THEN [st EXCEPT !.exc = "none", !.pre_registration = Register(@, 0, command)]
    ELSE [st EXCEPT !.exc = "none",
                    !.pre_registration = RegisterGuilds(@, command.guilds.ids, 1, command)]

\* The requests that start an upload: the application id is asked for once.
ApplicationInfo(st) ==
    IF st._application_id THEN << >> ELSE << Request("application_info", 0, << >>) >>

\* The classes of a payload are stored under the ids the server gave them.
Store(store, commands, key) ==
    [i \in DOMAIN store |->
        IF \E n \in 1..Len(commands) : ServerId(commands[n], key) = i
        THEN commands[CHOOSE n \in 1..Len(commands) : ServerId(commands[n], key) = i]
        ELSE store[i]]

\* CommandState.upload_global_commands()
upload_global_commands(st) ==
    IF st.pre_registration.lists[0] = << >>
    THEN [st EXCEPT !.exc = "none", !._application_id = TRUE, !.calls = ApplicationInfo(st)]
    ELSE [st EXCEPT !.exc = "none", !._application_id = TRUE,
                    !.calls = ApplicationInfo(st)
                              \o << Request("bulk_upsert_global_commands", 0,
                                            NamesOf(st.pre_registration.lists[0])) >>,
                    !.command_store = Store(@, st.pre_registration.lists[0], 0)]

\* The loop of upload_guild_commands over its targets, from the i-th on:
\* the None key is passed over.
RECURSIVE UploadTargets(_, _, _)
UploadTargets(st, targets, i) ==
    IF i > Len(targets) THEN st
    ELSE IF targets[i] = 0 THEN UploadTargets(st, targets, i + 1)
    ELSE UploadTargets(
             [st EXCEPT !.calls = Append(@, Request("bulk_upsert_guild_commands", targets[i],
                                                    NamesOf(st.pre_registration.lists[targets[i]]))),
                        !.command_store = Store(@, st.pre_registration.lists[targets[i]],
                                                targets[i])],
             targets, i + 1)

\* CommandState.upload_guild_commands(guild); guild 0: None.
upload_guild_commands(st, guild) ==
    IF guild # 0 /\ (guild \notin Keys \/ st.pre_registration.lists[guild] = << >>)
    THEN [st EXCEPT !.exc = "ValueError", !._application_id = TRUE,
                    !.calls = ApplicationInfo(st)]
    ELSE UploadTargets([st EXCEPT !.exc = "none", !._application_id = TRUE,
                                  !.calls = ApplicationInfo(st)],
                       IF guild # 0 THEN << guild >> ELSE st.pre_registration.keys, 1)

\* CommandState.dispatch(client, interaction), the interaction having the
\* command id `id`.
CommandState_dispatch(st, id, type) ==
    IF st.command_store[id] = NoClass THEN [st EXCEPT !.exc = "none", !.calls = << >>]
    ELSE IF type = "application_command"
    THEN [st EXCEPT !.exc = "none",
                    !.calls = << Request("callback", 0, << st.command_store[id].name >>) >>]
    ELSE [st EXCEPT !.exc = "none",
                    !.calls = << Request("autocomplete_callback", 0,
                                         << st.command_store[id].name >>),
                                 Request("create_interaction_response", 0, << >>) >>]

\* What a call leaves: its result, and what the call was.
Called(st, op, cls, guild, id) ==
    [st EXCEPT !.op = op, !.cls = cls, !.guild = guild, !.id = id,
               !.was = command_state.pre_registration]

\* state.add_command(command)
AddSlashCommand ==
    /\ \E command \in CommandClasses :
           /\ Len(command_state.pre_registration.lists[0])
                  + Len(command_state.pre_registration.lists[1])
                  + Len(command_state.pre_registration.lists[2]) < MaxRegistered
           /\ command_state' =
                  Called([CommandState_add_command(command_state, command) EXCEPT !.calls = << >>],
                         "add_command", command, 0, 0)
    /\ UNCHANGED <<extVars, invVars, ctxVars, slashVars, last, modal, registration>>

\* await state.upload_global_commands()
UploadGlobalCommands ==
    /\ command_state' = Called(upload_global_commands(command_state),
                               "upload_global_commands", NoClass, 0, 0)
    /\ UNCHANGED <<extVars, invVars, ctxVars, slashVars, last, modal, registration>>

\* await state.upload_guild_commands(guild), with a guild, None, or a guild
\* no command is for.
UploadGuildCommands ==
    /\ \E guild \in Keys \cup {3} :
           command_state' = Called(upload_guild_commands(command_state, guild),
                                   "upload_guild_commands", NoClass, guild, 0)
    /\ UNCHANGED <<extVars, invVars, ctxVars, slashVars, last, modal, registration>>

\* await state.dispatch(client, interaction)
DispatchInteraction ==
    /\ \E id \in InteractionIds, type \in {"application_command", "autocomplete"} :
           command_state' = Called(CommandState_dispatch(command_state, id, type),
                                   "dispatch", NoClass, 0, id)
    /\ UNCHANGED <<extVars, invVars, ctxVars, slashVars, last, modal, registration>>

NextState == AddSlashCommand \/ UploadGlobalCommands \/ UploadGuildCommands \/ DispatchInteraction

SpecState == Init /\ [][NextState]_vars

\* The list under key k is as before the call, with the class of the call
\* added n times at its end.
AddedTimes(k, n) ==
    /\ Len(command_state.pre_registration.lists[k]) = Len(command_state.was.lists[k]) + n
    /\ \A i \in 1..Len(command_state.pre_registration.lists[k]) :
           command_state.pre_registration.lists[k][i] =
               IF i <= Len(command_state.was.lists[k]) THEN command_state.was.lists[k][i]
               ELSE command_state.cls

\* The requests of the last call that upload commands.
Uploads ==
    {i \in 1..Len(command_state.calls) :
         command_state.calls[i].fn \in {"bulk_upsert_global_commands",
                                        "bulk_upsert_guild_commands"}}

\* C40: add_command puts a class declared without a guild list under the
\* None key only and a class declared with guilds under each of its guild
\* ids and no other key; upload_global_commands uploads the classes under
\* the None key and no others; upload_guild_commands uploads to a guild the
\* classes under its id only; and dispatch of an interaction whose command
\* id is not in command_store calls no callback and sends no response.
C40_KeysUploadsAndDispatch ==
    /\ command_state.op = "add_command"
           => /\ command_state.exc = "none"
              /\ command_state.cls.guilds.kind # "list"
                     => AddedTimes(0, 1) /\ \A g \in GuildIds : AddedTimes(g, 0)
              /\ command_state.cls.guilds.kind = "list"
                     => /\ AddedTimes(0, 0)
                        /\ \A g \in GuildIds :
                               AddedTimes(g, Cardinality(
                                   {i \in 1..Len(command_state.cls.guilds.ids) :
                                        command_state.cls.guilds.ids[i] = g}))
    /\ command_state.op = "upload_global_commands"
           => \A i \in Uploads :
                  command_state.calls[i] =
                      Request("bulk_upsert_global_commands", 0,
                              NamesOf(command_state.pre_registration.lists[0]))
    /\ command_state.op = "upload_guild_commands"
           => \A i \in Uploads :
                  /\ command_state.calls[i].fn = "bulk_upsert_guild_commands"
                  /\ command_state.calls[i].guild \in GuildIds
                  /\ command_state.calls[i].names =
                         NamesOf(command_state.pre_registration.lists[command_state.calls[i].guild])
                  /\ \A n \in 1..Len(command_state.pre_registration.lists[0]) :
                         \A k \in 1..Len(command_state.calls[i].names) :
                             command_state.calls[i].names[k]
                                 # command_state.pre_registration.lists[0][n].name
    /\ (command_state.op = "dispatch" /\ command_state.command_store[command_state.id] = NoClass)
           => command_state.calls = << >>

----------------------------------------------------------------------------
(* create_slash_commands *)

\* The commands of the bot in one call, at most.
MaxCommands == 2

\* A command of the bot: hidden, slash_command ("None": not set),
\* slash_command_guilds, and what to_application_command does: it returns
\* a payload or None, or raises.  A command is named by its place among
\* the commands of the bot.
BotCommand(hidden, slash_command, guilds, payload) ==
    [hidden |-> hidden, slash_command |-> slash_command, slash_command_guilds |-> guilds,
     payload |-> payload]
BotCommands ==
    {BotCommand(FALSE, "None", NoGuildList, "payload"),
     BotCommand(TRUE, "True", NoGuildList, "payload"),
     BotCommand(FALSE, "True", NoGuildList, "payload"),
     BotCommand(FALSE, "True", GuildList(<<1>>), "payload"),
     BotCommand(FALSE, "None", GuildList(<<2, 1>>), "payload"),
     BotCommand(FALSE, "False", GuildList(<<1>>), "None"),
     BotCommand(FALSE, "True", NoGuildList, "raises"),
     BotCommand(FALSE, "True", GuildList(<< >>), "payload")}
BotGuilds == {NoGuildList, GuildList(<<1>>), GuildList(<<2, 1>>), GuildList(<< >>)}

\* A faulty variant of GuildsOf, for comparison: the list of the bot comes
\* before the list of the command.
GuildsOfBotFirst(command, bot_guilds) ==
    IF bot_guilds.kind = "list" /\ bot_guilds.ids # << >> THEN bot_guilds
    ELSE command.slash_command_guilds

\* command.slash_command_guilds or self.slash_command_guilds: None and the
\* empty list are false.
GuildsOf(command, bot_guilds) ==
    IF command.slash_command_guilds.kind = "list" /\ command.slash_command_guilds.ids # << >>
    THEN command.slash_command_guilds
    ELSE bot_guilds

\* The first loop of create_slash_commands, from the i-th command on:
\* commands is the dict of the payloads by guild, key 0 being None.
RECURSIVE GroupCommands(_, _, _)
GroupCommands(reg, i, commands) ==
    IF i > Len(reg.commands) THEN [commands |-> commands, exc |-> "none"]
    ELSE IF \/ reg.commands[i].hidden
            \/ reg.commands[i].slash_command = "None" /\ ~ reg.slash_commands
    THEN GroupCommands(reg, i + 1, commands)
    ELSE IF reg.commands[i].payload = "raises"
    THEN [commands |-> commands, exc |-> "ApplicationCommandRegistrationError"]
    ELSE IF reg.commands[i].payload = "None" THEN GroupCommands(reg, i + 1, commands)
    ELSE IF GuildsOf(reg.commands[i], reg.slash_command_guilds).kind = "None"
    THEN GroupCommands(reg, i + 1, Register(commands, 0, i))
    ELSE GroupCommands(reg, i + 1,
                       RegisterGuilds(commands,
                                      GuildsOf(reg.commands[i], reg.slash_command_guilds).ids,
                                      1, i))

\* The requests for the global commands: one global request, or with a
\* list of the bot one request for each of its guilds.
UpsertGlobal(reg, global_commands) ==
    IF global_commands = << >> THEN << >>
    ELSE IF reg.slash_command_guilds.kind = "None"
    THEN << Request("bulk_upsert_global_commands", 0, global_commands) >>
    ELSE [k \in 1..Len(reg.slash_command_guilds.ids) |->
             Request("bulk_upsert_guild_commands", reg.slash_command_guilds.ids[k],
                     global_commands)]

\* The requests of the last loop: one for each key left in the dict.
UpsertGuilds(commands) ==
    LET guild(k) == k # 0
        guilds == SelectSeq(commands.keys, guild)
    IN  [k \in 1..Len(guilds) |->
            Request("bulk_upsert_guild_commands", guilds[k], commands.lists[guilds[k]])]

\* create_slash_commands, where the commands have been grouped (g).
CreateGrouped(reg, g) ==
    IF g.exc # "none" THEN [reg EXCEPT !.pc = "done", !.exc = g.exc]
    ELSE [reg EXCEPT !.pc = "done",
                     !.calls = UpsertGlobal(reg, g.commands.lists[0]) \o UpsertGuilds(g.commands)]

\* BotBase.create_slash_commands()
create_slash_commands(reg) ==
    CreateGrouped(reg, GroupCommands(reg, 1, [keys |-> << >>, lists |-> [k \in Keys |-> << >>]]))

\* await bot.create_slash_commands(), of a bot with some options and
\* commands.
CreateSlashCommands ==
    /\ registration.pc = "idle"
    /\ \E slash_commands \in BOOLEAN, bot_guilds \in BotGuilds,
          commands \in UNION {[1..n -> BotCommands] : n \in 0..MaxCommands} :
           registration' = create_slash_commands(
               [NoRegistration EXCEPT !.slash_commands = slash_commands,
                                      !.slash_command_guilds = bot_guilds,
                                      !.commands = commands])
    /\ UNCHANGED <<extVars, invVars, ctxVars, slashVars, last, modal, command_state>>

NextCreate == CreateSlashCommands

SpecCreate == Init /\ [][NextCreate]_vars

\* The requests of the call: the global ones, and those for guild g.
GlobalUpserts ==
    {i \in 1..Len(registration.calls) :
         registration.calls[i].fn = "bulk_upsert_global_commands"}
GuildUpserts(g) ==
    {i \in 1..Len(registration.calls) :
         /\ registration.calls[i].fn = "bulk_upsert_guild_commands"
         /\ registration.calls[i].guild = g}

\* Command n is in the payload of request i.
InPayload(n, i) ==
    \E k \in 1..Len(registration.calls[i].names) : registration.calls[i].names[k] = n

\* Command n is one the call sends: it is not hidden, it is a slash command
\* by its own setting or by that of the bot, and it has a payload.
Sent(n) ==
    /\ ~ registration.commands[n].hidden
    /\ registration.commands[n].slash_command = "True"
           \/ (registration.commands[n].slash_command = "None" /\ registration.slash_commands)
    /\ registration.commands[n].payload = "payload"

\* Command n has guilds of its own.
Restricted(n) ==
    /\ registration.commands[n].slash_command_guilds.kind = "list"
    /\ registration.commands[n].slash_command_guilds.ids # << >>

\* The guilds of a list.
GuildSet(l) == {l.ids[k] : k \in 1..Len(l.ids)}

====
